---- MODULE Spec2Model ----
(***************************************************************************)
(* Model of the CODE-DNA correlation core:                                 *)
(*   - BubblePairDetector (polling, pairing, completion filter, cache)     *)
(*   - runAiContextPipelineForPair (enrich, branch switch, commit,         *)
(*     restore, metadata upsert)                                           *)
(*   - gitCommit.ts (ensureAiContextBranch, commitMatchedFiles,            *)
(*     restoreBranch and the module-level savedBranchBeforeAiContext)      *)
(***************************************************************************)
EXTENDS Integers, Sequences, FiniteSets, TLC

\* ------------------------------------------------------------------------
\* Bounds of the model (not program constants)
\* ------------------------------------------------------------------------
MaxLen == 4
MaxT == 1
MaxBubbles == 4
MaxClockSteps == 2
MaxTicks == 2
MaxTimers == 2
MaxResets == 1
NSlots == 2
MaxStopTicks == 3
MaxWaitSteps == 3
MaxRanges == 3
MaxLine == 5
MaxChunks == 2
MaxCommitPaths == 2
MaxEvents == 1
MaxTokens == 1
MaxAssistants == 2
MaxItems == 2

\* ------------------------------------------------------------------------
\* Program constants
\* ------------------------------------------------------------------------
COMPLETION_WAIT_MS == 30000

\* lastAssistant.createdAt + 60000 in enrichPairWithFiles
GRACE_MS == 60000

\* granularity and horizon of the model's clock
TimeStep == COMPLETION_WAIT_MS \div 2

MaxNow == MaxClockSteps * TimeStep

\* ------------------------------------------------------------------------
\* Bubbles (conversation turns)
\* ------------------------------------------------------------------------
Composers == {"c1", "c2"}
\* texts are sequences of characters; " " is whitespace

Bubble(i, c, ty, tx, t) ==
  [bubbleId |-> i, composerId |-> c, type |-> ty, text |-> tx, createdAt |-> t]

RECURSIVE TrimStart(_)
TrimStart(s) ==
  IF s = <<>> THEN s
  ELSE IF Head(s) = " " THEN TrimStart(Tail(s)) ELSE s

RECURSIVE TrimEnd(_)
TrimEnd(s) ==
  IF s = <<>> THEN s
  ELSE IF s[Len(s)] = " " THEN TrimEnd(SubSeq(s, 1, Len(s) - 1)) ELSE s

\* String.prototype.trim
Trim(s) == TrimEnd(TrimStart(s))

\* allBubbles.sort((a, b) => a.createdAt - b.createdAt): stable, ascending
RECURSIVE InsertSorted(_, _)
InsertSorted(b, s) ==
  IF s = <<>> THEN <<b>>
  ELSE IF s[Len(s)].createdAt <= b.createdAt THEN Append(s, b)
  ELSE Append(InsertSorted(b, SubSeq(s, 1, Len(s) - 1)), s[Len(s)])

RECURSIVE SortByCreatedAtAux(_, _)
SortByCreatedAtAux(s, acc) ==
  IF s = <<>> THEN acc
  ELSE SortByCreatedAtAux(Tail(s), InsertSorted(Head(s), acc))

SortByCreatedAtSkipped(s) == s

SortByCreatedAt(s) == SortByCreatedAtAux(s, <<>>)

\* the filter of pairBubbles: non-empty trimmed text, same composer as the user
QualifiesNoText(b, user) == b.composerId = user.composerId

QualifiesNoComposer(b, user) == Len(Trim(b.text)) > 0

Qualifies(b, user) ==
  /\ Len(Trim(b.text)) > 0
  /\ b.composerId = user.composerId

FilterAssistants(as, user) == SelectSeq(as, LAMBDA b : Qualifies(b, user))

\* closes the in-progress pair: pushed only with >= 1 qualifying assistant
ClosePair(pairs, cu, ca) ==
  IF cu = <<>> THEN pairs
  ELSE LET fa == FilterAssistants(ca, cu[1])
       IN  IF Len(fa) > 0
           THEN Append(pairs, [userBubble |-> cu[1], assistantBubbles |-> fa])
           ELSE pairs

\* the scan of pairBubbles; cu is <<>> (null) or <<currentUser>>
RECURSIVE PairScan(_, _, _, _)
PairScan(bs, pairs, cu, ca) ==
  IF bs = <<>> THEN ClosePair(pairs, cu, ca)
  ELSE LET b == Head(bs)
       IN  IF b.type = "user"
           THEN PairScan(Tail(bs), ClosePair(pairs, cu, ca), <<b>>, <<>>)
           ELSE IF b.type = "assistant" /\ cu # <<>>
                THEN PairScan(Tail(bs), pairs, cu, Append(ca, b))
                ELSE PairScan(Tail(bs), pairs, cu, ca)

pairBubbles(bs) == PairScan(bs, <<>>, <<>>, <<>>)

isPairCompleteFromFirst(pair, isLastPair, t) ==
  IF Len(pair.assistantBubbles) = 0 THEN FALSE
  ELSE IF ~isLastPair THEN TRUE
  ELSE t - pair.assistantBubbles[1].createdAt >= COMPLETION_WAIT_MS

isPairCompleteStrict(pair, isLastPair, t) ==
  IF Len(pair.assistantBubbles) = 0 THEN FALSE
  ELSE IF ~isLastPair THEN TRUE
  ELSE t - pair.assistantBubbles[Len(pair.assistantBubbles)].createdAt
         > COMPLETION_WAIT_MS

isPairComplete(pair, isLastPair, t) ==
  IF Len(pair.assistantBubbles) = 0 THEN FALSE
  ELSE IF ~isLastPair THEN TRUE
  ELSE t - pair.assistantBubbles[Len(pair.assistantBubbles)].createdAt
         >= COMPLETION_WAIT_MS

RECURSIVE FilterCompletedFrom(_, _, _)
FilterCompletedFrom(pairs, i, t) ==
  IF i > Len(pairs) THEN <<>>
  ELSE LET rest == FilterCompletedFrom(pairs, i + 1, t)
       IN  IF isPairComplete(pairs[i], i = Len(pairs), t)
           THEN <<pairs[i]>> \o rest
           ELSE rest

filterCompletedPairs(pairs, t) ==
  IF Len(pairs) = 0 THEN <<>> ELSE FilterCompletedFrom(pairs, 1, t)

\* ------------------------------------------------------------------------
\* State
\* ------------------------------------------------------------------------
VARIABLES
  now,              \* Date.now()
  db,               \* bubbles of the active composer, as the Cursor DB returns them
  cache,            \* BubblePairDetector.cache (keys): emitted user-bubble ids
  isProcessing,     \* BubblePairDetector.isProcessing
  pollTickCount,    \* BubblePairDetector.pollTickCount
  ticksLeft,        \* environment: calls of checkForNewPairs still to come
  pollingInterval,  \* BubblePairDetector.pollingInterval (0 = null)
  timers,           \* live setInterval timers
  timersMade,       \* number of setInterval calls so far
  cyc,              \* per invocation of checkForNewPairs: position and locals
  invoked,          \* history: number of onNewPair invocations per user-bubble id
  returned,         \* history: normal returns of onNewPair per id since resetCache
  skipped,          \* history: ticks that returned at the isProcessing guard
  evaluated,        \* history: cycles whose fetch returned (pairs were evaluated)
  resets,           \* history: number of resetCache calls
  lastExit,         \* history: the exit path of the last finished poll cycle
  pipe,             \* per onNewPair call: position and locals of the pair pipeline
  activeBranch,     \* git: the checked-out branch ("HEAD" = detached)
  localBranches,    \* git: the local branches that exist (git branch)
  savedBranch,      \* gitCommit.ts savedBranchBeforeAiContext ("null" = null)
  aiLog,            \* git: commits of the ai-context branch, newest first
  index,            \* git: paths whose index entry differs from HEAD (staged)
  store,            \* MetadataStore: the records of metadata.json, in order
  diff              \* gitDiff.ts / pairEnricher.ts: one call, its input and result

detVars == <<now, db, cache, isProcessing, pollTickCount, ticksLeft, pollingInterval, timers,
             timersMade, cyc, invoked, returned, skipped, evaluated, resets, lastExit>>

gitVars == <<pipe, activeBranch, localBranches, savedBranch, aiLog, index, store>>

vars == <<detVars, gitVars, diff>>

Slots == 1..NSlots
Ids == 1..MaxBubbles

\* locals of one checkForNewPairs invocation: allBubbles (sorted), pairs,
\* newPairs, the loop index k and the Date.now() the completion filter read
IdleCycle ==
  [pc |-> "idle", allBubbles |-> <<>>, pairs |-> <<>>, newPairs |-> <<>>,
   k |-> 0, evalAt |-> 0]

\* file paths are sequences of path segments
APY == <<"a.py">>

BPY == <<"b.py">>

AI_META == <<".ai-context", "metadata.json">>

\* the literal '(파일 변경 없음)' of runAiContextPipelineForPair
NO_CHANGE_PLACEHOLDER == <<"(no file change)">>

\* the literal '(현재 파일 없음)' of saveEnrichedPairMetadata
NO_CURRENT_FILE_PLACEHOLDER == <<"(no current file)">>

\* getAiContextBranchName: AI_CONTEXT_BRANCH_PREFIX + userName
AI_BRANCH == "ai-context-user"

\* locals of one runAiContextPipelineForPair call, and what the run did
IdlePipe ==
  [pc |-> "idle", changedFiles |-> {}, commitHash |-> 0, created |-> FALSE,
   branchBefore |-> "null", ensureCalled |-> FALSE, restore |-> "no",
   gitFailed |-> FALSE, upserts |-> 0, committedPaths |-> {},
   replaced |-> FALSE, notified |-> 0]

\* no call of the diff functions is being followed
NoDiff == [op |-> "none", pc |-> "in", input |-> <<>>, output |-> <<>>]

NoRecord == [present |-> FALSE, commitHash |-> 0, beforeCommitHash |-> 0]

\* bubble kinds the conversation store produces in the system model
SysTexts == {<<" ">>, <<"o">>}

SysKinds ==
  {[type |-> "user", composerId |-> "c1", text |-> <<"o">>]}
  \cup {[type |-> "assistant", composerId |-> "c1", text |-> tx] : tx \in SysTexts}
  \cup {[type |-> "assistant", composerId |-> "c2", text |-> <<"o">>]}

InitDetector ==
  /\ now = 0
  /\ db = <<>>
  /\ cache = {}
  /\ isProcessing = FALSE
  /\ pollTickCount = 0
  /\ ticksLeft = MaxTicks
  /\ pollingInterval = 0
  /\ timers = {}
  /\ timersMade = 0
  /\ cyc = [c \in Slots |-> IdleCycle]
  /\ invoked = [i \in Ids |-> 0]
  /\ returned = [i \in Ids |-> 0]
  /\ skipped = 0
  /\ evaluated = 0
  /\ resets = 0
  /\ lastExit = "none"

\* ------------------------------------------------------------------------
\* BubblePairDetector.checkForNewPairs
\* ------------------------------------------------------------------------
Busy(c) == cyc[c].pc # "idle"

LowestIdle == CHOOSE c \in Slots : ~Busy(c) /\ \A d \in Slots : d < c => Busy(d)

\* if (this.isProcessing) return;
GuardOpen == FALSE

GuardBusy == isProcessing

\* this.isProcessing = true
FlagNotSet == FALSE

FlagOnEnter == TRUE

\* the synchronous head of checkForNewPairs: count the tick, then either
\* return at the guard or set isProcessing and start the cycle
Enter ==
  /\ pollTickCount' = pollTickCount + 1
  /\ ticksLeft' = ticksLeft - 1
  /\ IF GuardBusy
     THEN /\ skipped' = skipped + 1
          /\ UNCHANGED <<isProcessing, cyc>>
     ELSE /\ \E c \in Slots : ~Busy(c)
          /\ isProcessing' = FlagOnEnter
          /\ cyc' = [cyc EXCEPT ![LowestIdle] = [IdleCycle EXCEPT !.pc = "composer"]]
          /\ UNCHANGED skipped

\* the finally block: this.isProcessing = false, and the invocation ends;
\* how names the return or throw that led there
FinishKeepsFlag(c, how) ==
  /\ cyc' = [cyc EXCEPT ![c] = IdleCycle]
  /\ UNCHANGED isProcessing
  /\ lastExit' = how

Finish(c, how) ==
  /\ cyc' = [cyc EXCEPT ![c] = IdleCycle]
  /\ isProcessing' = FALSE
  /\ lastExit' = how

\* startPolling: an immediate checkForNewPairs, then setInterval
StartPolling ==
  /\ timersMade < MaxTimers
  /\ ticksLeft > 0
  /\ Enter
  /\ timersMade' = timersMade + 1
  /\ timers' = timers \cup {timersMade + 1}
  /\ pollingInterval' = timersMade + 1
  /\ UNCHANGED <<now, db, cache, invoked, returned, evaluated, resets, lastExit>>
  /\ UNCHANGED <<gitVars, diff>>

\* stopPolling: clearInterval(this.pollingInterval)
StopPolling ==
  /\ pollingInterval # 0
  /\ timers' = timers \ {pollingInterval}
  /\ pollingInterval' = 0
  /\ UNCHANGED <<now, db, cache, isProcessing, pollTickCount, ticksLeft, timersMade, cyc,
                 invoked, returned, skipped, evaluated, resets, lastExit>>
  /\ UNCHANGED <<gitVars, diff>>

\* a live interval timer fires
TimerTick(t) ==
  /\ t \in timers
  /\ ticksLeft > 0
  /\ Enter
  /\ UNCHANGED <<now, db, cache, pollingInterval, timers, timersMade, invoked,
                 returned, evaluated, resets, lastExit>>
  /\ UNCHANGED <<gitVars, diff>>

\* await getActiveComposerFromWorkspace(...): a composer id, null, or a throw
GetComposer(c) ==
  /\ cyc[c].pc = "composer"
  /\ \E outcome \in {"id", "null", "throw"} :
       IF outcome = "id"
       THEN /\ cyc' = [cyc EXCEPT ![c].pc = "fetch"]
            /\ UNCHANGED <<isProcessing, lastExit>>
       ELSE Finish(c, IF outcome = "null" THEN "noComposer" ELSE "composerThrow")
  /\ UNCHANGED <<now, db, cache, pollTickCount, ticksLeft, pollingInterval, timers,
                 timersMade, invoked, returned, skipped, evaluated, resets>>
  /\ UNCHANGED <<gitVars, diff>>

\* completedPairs.filter(p => !this.cache.has(p.userBubble.bubbleId))
NewPairsIgnoringCache(completed, emitted) == completed

NewPairsOf(completed, emitted) ==
  SelectSeq(completed, LAMBDA p : p.userBubble.bubbleId \notin emitted)

\* await initialize / getBubblesForComposer threw: catch, finally
FetchThrowNoFinally(c) ==
  /\ cyc[c].pc = "fetch"
  /\ cyc' = [cyc EXCEPT ![c] = IdleCycle]
  /\ lastExit' = "fetchThrow"
  /\ UNCHANGED <<now, db, cache, pollTickCount, ticksLeft, pollingInterval, timers,
                 timersMade, invoked, returned, skipped, evaluated, resets,
                 isProcessing>>
  /\ UNCHANGED <<gitVars, diff>>

FetchThrow(c) ==
  /\ cyc[c].pc = "fetch"
  /\ Finish(c, "fetchThrow")
  /\ UNCHANGED <<now, db, cache, pollTickCount, ticksLeft, pollingInterval, timers,
                 timersMade, invoked, returned, skipped, evaluated, resets>>
  /\ UNCHANGED <<gitVars, diff>>

\* await initialize / getBubblesForComposer returned; then the synchronous
\* sort, pairBubbles, filterCompletedPairs and the cache filter
FetchOk(c) ==
  /\ cyc[c].pc = "fetch"
  /\ evaluated' = evaluated + 1
  /\ IF Len(db) = 0
     THEN Finish(c, "noTurns")
     ELSE LET allBubbles == SortByCreatedAt(db)
              pairs == pairBubbles(allBubbles)
              completedPairs == filterCompletedPairs(pairs, now)
              newPairs == NewPairsOf(completedPairs, cache)
          IN  IF Len(newPairs) = 0
              THEN Finish(c, "noNewPairs")
              ELSE /\ cyc' = [cyc EXCEPT ![c] =
                        [pc |-> "loop", allBubbles |-> allBubbles,
                         pairs |-> pairs, newPairs |-> newPairs, k |-> 1,
                         evalAt |-> now]]
                   /\ UNCHANGED <<isProcessing, lastExit>>
  /\ UNCHANGED <<now, db, cache, pollTickCount, ticksLeft, pollingInterval, timers,
                 timersMade, invoked, returned, skipped, resets>>
  /\ UNCHANGED <<gitVars, diff>>

CurrentPair(c) == cyc[c].newPairs[cyc[c].k]

CurrentId(c) == CurrentPair(c).userBubble.bubbleId

\* await Promise.resolve(this.onNewPair(pair)) with an arbitrary callback
CallHandler(c) ==
  /\ cyc[c].pc = "loop"
  /\ cyc' = [cyc EXCEPT ![c].pc = "handler"]
  /\ invoked' = [invoked EXCEPT ![CurrentId(c)] = @ + 1]
  /\ UNCHANGED <<now, db, cache, isProcessing, pollTickCount, ticksLeft, pollingInterval,
                 timers, timersMade, returned, skipped, evaluated, resets, lastExit>>
  /\ UNCHANGED <<gitVars, diff>>

\* await Promise.resolve(...) settles once the callback's promise has settled
HandlerSettled(c) == pipe[c].pc \in {"idle", "done"}

\* the handler returned: this.cache.set(id, true), then the next pair or the end
RecordAndContinue(c) ==
  /\ cache' = cache \cup {CurrentId(c)}
  /\ returned' = [returned EXCEPT ![CurrentId(c)] = @ + 1]
  /\ IF cyc[c].k = Len(cyc[c].newPairs)
     THEN Finish(c, "done")
     ELSE /\ cyc' = [cyc EXCEPT ![c].pc = "loop", ![c].k = @ + 1]
          /\ UNCHANGED <<isProcessing, lastExit>>

HandlerReturn(c) ==
  /\ cyc[c].pc = "handler"
  /\ HandlerSettled(c)
  /\ RecordAndContinue(c)
  /\ pipe' = [pipe EXCEPT ![c] = IdlePipe]
  /\ UNCHANGED <<activeBranch, localBranches, savedBranch, aiLog, index, store, diff>>
  /\ UNCHANGED <<now, db, pollTickCount, ticksLeft, pollingInterval, timers, timersMade,
                 invoked, skipped, evaluated, resets>>

\* the handler threw: caught by the catch block, the loop is abandoned
HandlerThrowRecording(c) ==
  /\ cyc[c].pc = "handler"
  /\ Finish(c, "handlerThrow")
  /\ cache' = cache \cup {CurrentId(c)}
  /\ UNCHANGED <<now, db, pollTickCount, ticksLeft, pollingInterval, timers,
                 timersMade, invoked, returned, skipped, evaluated, resets>>
  /\ UNCHANGED <<gitVars, diff>>

HandlerThrow(c) ==
  /\ cyc[c].pc = "handler"
  /\ Finish(c, "handlerThrow")
  /\ UNCHANGED <<now, db, cache, pollTickCount, ticksLeft, pollingInterval, timers,
                 timersMade, invoked, returned, skipped, evaluated, resets>>
  /\ UNCHANGED <<gitVars, diff>>

\* resetCache without the clear
ResetCacheKeeping ==
  /\ resets < MaxResets
  /\ UNCHANGED cache
  /\ returned' = [i \in Ids |-> 0]
  /\ resets' = resets + 1
  /\ UNCHANGED <<now, db, isProcessing, pollTickCount, ticksLeft, pollingInterval, timers,
                 timersMade, cyc, invoked, skipped, evaluated, lastExit>>
  /\ UNCHANGED <<gitVars, diff>>

\* resetCache: this.cache.clear()
ResetCache ==
  /\ resets < MaxResets
  /\ cache' = {}
  /\ returned' = [i \in Ids |-> 0]
  /\ resets' = resets + 1
  /\ UNCHANGED <<now, db, isProcessing, pollTickCount, ticksLeft, pollingInterval, timers,
                 timersMade, cyc, invoked, skipped, evaluated, lastExit>>
  /\ UNCHANGED <<gitVars, diff>>

\* ------------------------------------------------------------------------
\* Environment: the conversation store grows, the clock advances
\* ------------------------------------------------------------------------
AddBubble ==
  /\ Len(db) < MaxBubbles
  /\ \E kd \in SysKinds :
       db' = Append(db, Bubble(Len(db) + 1, kd.composerId, kd.type, kd.text, now))
  /\ UNCHANGED <<now, cache, isProcessing, pollTickCount, ticksLeft, pollingInterval,
                 timers, timersMade, cyc, invoked, returned, skipped, evaluated,
                 resets, lastExit>>
  /\ UNCHANGED <<gitVars, diff>>

AdvanceTime ==
  /\ now + TimeStep <= MaxNow
  /\ now' = now + TimeStep
  /\ UNCHANGED <<db, cache, isProcessing, pollTickCount, ticksLeft, pollingInterval,
                 timers, timersMade, cyc, invoked, returned, skipped, evaluated,
                 resets, lastExit>>
  /\ UNCHANGED <<gitVars, diff>>

\* ------------------------------------------------------------------------
\* git working tree and the metadata store
\* ------------------------------------------------------------------------
UserBranches == {"main", "dev"}

\* git log of a user branch or of a detached HEAD, newest first
UserLog(b) ==
  IF b = "main" THEN <<102, 101>> ELSE IF b = "dev" THEN <<103>> ELSE <<101>>

LogOf(b) == IF b = AI_BRANCH THEN aiLog ELSE UserLog(b)

InitGit(branch, aiExists) ==
  /\ pipe = [c \in Slots |-> IdlePipe]
  /\ activeBranch = branch
  /\ localBranches = UserBranches \cup (IF aiExists THEN {AI_BRANCH} ELSE {})
  /\ savedBranch = "null"
  /\ aiLog = IF aiExists THEN <<201>> ELSE <<>>
  /\ index = {}
  /\ store = <<>>
  /\ diff = NoDiff

\* ------------------------------------------------------------------------
\* runAiContextPipelineForPair, called by the extension's onNewPair callback
\* ------------------------------------------------------------------------
\* filePath.startsWith('.ai-context/')
StartsWithAiContextDir(f) == Len(f) >= 2 /\ f[1] = ".ai-context"

\* what enrichPairWithFiles can return as changedFiles (paths only)
EnrichResults == {{}, {APY}, {AI_META}, {APY, AI_META}}

\* vscode.window.activeTextEditor: none, or a document path
Editors == {<<>>, APY, AI_META}

\* the fallback when enrichPairWithFiles found no changed file
WithFallback(files, editor) ==
  IF files # {} THEN files
  ELSE IF editor # <<>> /\ ~StartsWithAiContextDir(editor) THEN {editor}
  ELSE {NO_CHANGE_PLACEHOLDER}

\* changedFiles.some(f => f.filePath !== '(파일 변경 없음)')
HasAnyFile(files) == files # {}

HasRealFile(files) == \E f \in files : f # NO_CHANGE_PLACEHOLDER

\* the effectiveFiles filter of saveEnrichedPairMetadata
EffectiveFiles(files) ==
  {f \in files : /\ f # <<>>
                 /\ f # NO_CURRENT_FILE_PLACEHOLDER
                 /\ f # NO_CHANGE_PLACEHOLDER
                 /\ ~StartsWithAiContextDir(f)}

PipeUnchangedDetector ==
  UNCHANGED <<now, db, cache, isProcessing, pollTickCount, ticksLeft, pollingInterval,
              timers, timersMade, cyc, invoked, returned, skipped, evaluated,
              resets, lastExit>>

\* the extension's onNewPair: await runAiContextPipelineForPair(...) in try/catch
OnNewPair(c) ==
  /\ cyc[c].pc = "loop"
  /\ cyc' = [cyc EXCEPT ![c].pc = "handler"]
  /\ invoked' = [invoked EXCEPT ![CurrentId(c)] = @ + 1]
  /\ pipe' = [pipe EXCEPT ![c] =
                [IdlePipe EXCEPT !.pc = "enrich", !.branchBefore = activeBranch]]
  /\ UNCHANGED <<now, db, cache, isProcessing, pollTickCount, ticksLeft, pollingInterval,
                 timers, timersMade, returned, skipped, evaluated, resets, lastExit>>
  /\ UNCHANGED <<activeBranch, localBranches, savedBranch, aiLog, index, store, diff>>

\* await enrichPairWithFiles, the editor fallback, and the test that opens the
\* git section
Enrich(c) ==
  /\ pipe[c].pc = "enrich"
  /\ \E files \in EnrichResults, editor \in Editors :
       LET changed == WithFallback(files, editor)
       IN  pipe' = [pipe EXCEPT ![c].changedFiles = changed,
                                ![c].pc = IF HasRealFile(changed)
                                          THEN "revparse" ELSE "save",
                                ![c].ensureCalled = HasRealFile(changed)]
  /\ PipeUnchangedDetector
  /\ UNCHANGED <<activeBranch, localBranches, savedBranch, aiLog, index, store, diff>>

\* where the pipeline goes when ensureAiContextBranch throws: catch, then finally
AfterEnsureThrowSkipRestore == "save"

AfterEnsureThrowCommits == "commit"

AfterEnsureThrow == "restore"

EnsureThrows(c) ==
  pipe' = [pipe EXCEPT ![c].pc = AfterEnsureThrow, ![c].gitFailed = TRUE]

\* ensureAiContextBranch: await git.revparse(['--abbrev-ref', 'HEAD']), then
\* savedBranchBeforeAiContext = current.trim()
Revparse(c) ==
  /\ pipe[c].pc = "revparse"
  /\ \E ok \in BOOLEAN :
       IF ok
       THEN /\ savedBranch' = activeBranch
            /\ pipe' = [pipe EXCEPT ![c].pc = "branchLocal"]
       ELSE /\ EnsureThrows(c)
            /\ UNCHANGED savedBranch
  /\ PipeUnchangedDetector
  /\ UNCHANGED <<activeBranch, localBranches, aiLog, index, store, diff>>

\* ensureAiContextBranch: await git.branchLocal()
BranchLocal(c) ==
  /\ pipe[c].pc = "branchLocal"
  /\ \E ok \in BOOLEAN :
       IF ok
       THEN pipe' = [pipe EXCEPT ![c].pc = "checkout",
                                 ![c].created = AI_BRANCH \notin localBranches]
       ELSE EnsureThrows(c)
  /\ PipeUnchangedDetector
  /\ UNCHANGED <<activeBranch, localBranches, savedBranch, aiLog, index, store, diff>>

\* files tracked on the user's branches
TrackedFiles == {APY, BPY}

\* the index after git checkout --orphan (every tracked file is staged against
\* the empty history) and git rm -rf --cached . (whose failure is ignored)
IndexAfterOrphan(idx, rmOk) == IF rmOk THEN {} ELSE idx \cup TrackedFiles

\* if (created && options?.onAiContextBranchFirstCreated)
\*   options.onAiContextBranchFirstCreated(branchName): calls made in a run
CallbackCallsAlways(created) == 1

CallbackCalls(created) == IF created THEN 1 ELSE 0

\* ensureAiContextBranch: git checkout <branch>, or git checkout --orphan
\* <branch> followed by git rm -rf --cached . (whose failure is ignored);
\* once it has returned, the first-created callback
Checkout(c) ==
  /\ pipe[c].pc = "checkout"
  /\ \E ok \in BOOLEAN, rmOk \in BOOLEAN :
       IF ok
       THEN /\ activeBranch' = AI_BRANCH
            /\ index' = IF pipe[c].created
                         THEN IndexAfterOrphan(index, rmOk) ELSE index
            /\ pipe' = [pipe EXCEPT ![c].pc = "commit",
                                    ![c].notified = CallbackCalls(pipe[c].created)]
       ELSE /\ EnsureThrows(c)
            /\ UNCHANGED <<activeBranch, index>>
  /\ PipeUnchangedDetector
  /\ UNCHANGED <<localBranches, savedBranch, aiLog, store, diff>>

NewHash == 201 + Len(aiLog)

\* commitMatchedFiles: a commit hash, or null when nothing is staged or when
\* add/commit raised an error (caught inside)
\* git add(filePaths) stages the given paths that have a change; git commit
\* (without a pathspec) then commits the whole index
Commit(c) ==
  /\ pipe[c].pc = "commit"
  /\ \E outcome \in {"committed", "nothing", "error"},
        added \in SUBSET pipe[c].changedFiles :
       LET staged == index \cup added
       IN  IF outcome = "committed"
           THEN /\ activeBranch = AI_BRANCH
                /\ staged # {}
                /\ aiLog' = <<NewHash>> \o aiLog
                /\ localBranches' = localBranches \cup {AI_BRANCH}
                /\ index' = {}
                /\ pipe' = [pipe EXCEPT ![c].pc = "restore",
                                        ![c].commitHash = NewHash,
                                        ![c].committedPaths = staged]
           ELSE /\ outcome = "nothing" => staged = {}
                /\ index' = IF outcome = "nothing" THEN index ELSE staged
                /\ pipe' = [pipe EXCEPT ![c].pc = "restore",
                                        ![c].gitFailed = @ \/ outcome = "error"]
                /\ UNCHANGED <<aiLog, localBranches>>
  /\ PipeUnchangedDetector
  /\ UNCHANGED <<activeBranch, savedBranch, store, diff>>

\* a target that ignores the recorded branch
RestoreTargetMain == "main"

\* const target = savedBranchBeforeAiContext ?? 'main'
RestoreTarget == IF savedBranch = "null" THEN "main" ELSE savedBranch

\* git checkout <target>: "HEAD" names the current commit and switches nothing
CheckedOut(target) == IF target = "HEAD" THEN activeBranch ELSE target

\* where the pipeline goes after restoreBranch, whether it threw or not
AfterRestore(ok) == "save"

\* restoreBranch inside the finally block: try { checkout } finally { saved = null }
Restore(c) ==
  /\ pipe[c].pc = "restore"
  /\ \E ok \in BOOLEAN :
       /\ ok => RestoreTarget \in localBranches \cup {"HEAD"}
       /\ activeBranch' = IF ok THEN CheckedOut(RestoreTarget) ELSE activeBranch
       /\ pipe' = [pipe EXCEPT ![c].pc = AfterRestore(ok),
                               ![c].restore = IF ok THEN "ok" ELSE "failed"]
  /\ savedBranch' = "null"
  /\ PipeUnchangedDetector
  /\ UNCHANGED <<localBranches, aiLog, index, store, diff>>

\* git.log({ maxCount: 2 }) of HEAD; log.all[1].hash when there are two entries
SecondOfLog(b) == IF Len(LogOf(b)) >= 2 THEN LogOf(b)[2] ELSE 0

HasRecord(st, id) == \E n \in 1..Len(st) : st[n].bubbleId = id

\* the stored record of id, NoRecord when there is none
StoreGet(st, id) ==
  IF HasRecord(st, id) THEN st[CHOOSE n \in 1..Len(st) : st[n].bubbleId = id]
  ELSE NoRecord

\* MetadataStore.upsertMetadata: the record replaces the one of the same id,
\* or is added when the id is new
Upsert(st, id, rec) ==
  IF HasRecord(st, id)
  THEN [n \in 1..Len(st) |-> IF st[n].bubbleId = id THEN rec ELSE st[n]]
  ELSE Append(st, rec)

\* bubbleId: userBubble.bubbleId of the AICodeMetadata record
MetadataIdOfAssistant(c) == CurrentPair(c).assistantBubbles[1].bubbleId

MetadataId(c) == CurrentPair(c).userBubble.bubbleId

\* whether the record is written when the git steps left no commit hash
SavesOnlyWithCommit(files, hash) == EffectiveFiles(files) # {} /\ hash # 0

\* whether the record is written whatever the file list holds
SavesAlways(files, hash) == TRUE

Saves(files, hash) == EffectiveFiles(files) # {}

\* saveEnrichedPairMetadata and the return true of the pipeline
Save(c) ==
  /\ pipe[c].pc = "save"
  /\ IF ~Saves(pipe[c].changedFiles, pipe[c].commitHash)
     THEN /\ pipe' = [pipe EXCEPT ![c].pc = "done"]
          /\ UNCHANGED store
     ELSE \E logOk \in BOOLEAN :
            LET before == IF pipe[c].commitHash # 0 /\ logOk
                          THEN SecondOfLog(activeBranch) ELSE 0
            IN  /\ store' = Upsert(store, MetadataId(c),
                                   [bubbleId |-> MetadataId(c),
                                    present |-> TRUE,
                                    commitHash |-> pipe[c].commitHash,
                                    beforeCommitHash |-> before])
                /\ pipe' = [pipe EXCEPT ![c].pc = "done", ![c].upserts = @ + 1,
                                        ![c].replaced = HasRecord(store, MetadataId(c))]
  /\ PipeUnchangedDetector
  /\ UNCHANGED <<activeBranch, localBranches, savedBranch, aiLog, index, diff>>

\* conversations present when the extension is activated
U1 == Bubble(1, "c1", "user", <<"o">>, 0)

A2 == Bubble(2, "c1", "assistant", <<"o">>, 0)

U3 == Bubble(3, "c1", "user", <<"o">>, 0)

A4 == Bubble(4, "c1", "assistant", <<"o">>, 0)

InitConversations == {<<U1, A2>>, <<U1, A2, U3, A4>>}

\* the extension: the detector wired to the pair pipeline, on a conversation
\* whose pairs are complete
InitWired ==
  /\ now = COMPLETION_WAIT_MS
  /\ db \in InitConversations
  /\ cache = {}
  /\ isProcessing = FALSE
  /\ pollTickCount = 0
  /\ ticksLeft = MaxTicks
  /\ pollingInterval = 0
  /\ timers = {}
  /\ timersMade = 0
  /\ cyc = [c \in Slots |-> IdleCycle]
  /\ invoked = [i \in Ids |-> 0]
  /\ returned = [i \in Ids |-> 0]
  /\ skipped = 0
  /\ evaluated = 0
  /\ resets = 0
  /\ lastExit = "none"
  /\ \E branch \in UserBranches \cup {"HEAD"}, aiExists \in BOOLEAN :
       InitGit(branch, aiExists)

Next ==
  \/ StartPolling
  \/ StopPolling
  \/ \E t \in 1..MaxTimers : TimerTick(t)
  \/ \E c \in Slots : GetComposer(c)
  \/ \E c \in Slots : FetchThrow(c)
  \/ \E c \in Slots : FetchOk(c)
  \/ \E c \in Slots : OnNewPair(c)
  \/ \E c \in Slots : Enrich(c)
  \/ \E c \in Slots : Revparse(c)
  \/ \E c \in Slots : BranchLocal(c)
  \/ \E c \in Slots : Checkout(c)
  \/ \E c \in Slots : Commit(c)
  \/ \E c \in Slots : Restore(c)
  \/ \E c \in Slots : Save(c)
  \/ \E c \in Slots : HandlerReturn(c)
  \/ ResetCache

Spec == InitWired /\ [][Next]_vars

\* the extension on one conversation and one branch, with enough calls of
\* checkForNewPairs for start, start, stop and a later timer tick
InitStop ==
  /\ now = COMPLETION_WAIT_MS
  /\ db = <<U1, A2>>
  /\ cache = {}
  /\ isProcessing = FALSE
  /\ pollTickCount = 0
  /\ ticksLeft = MaxStopTicks
  /\ pollingInterval = 0
  /\ timers = {}
  /\ timersMade = 0
  /\ cyc = [c \in Slots |-> IdleCycle]
  /\ invoked = [i \in Ids |-> 0]
  /\ returned = [i \in Ids |-> 0]
  /\ skipped = 0
  /\ evaluated = 0
  /\ resets = 0
  /\ lastExit = "none"
  /\ InitGit("main", FALSE)

SpecStop == InitStop /\ [][Next]_vars

\* detector with an arbitrary onNewPair callback (may return or throw)
InitDet == InitDetector /\ InitGit("main", FALSE)

NextDet ==
  \/ StartPolling
  \/ StopPolling
  \/ \E t \in 1..MaxTimers : TimerTick(t)
  \/ \E c \in Slots : GetComposer(c)
  \/ \E c \in Slots : FetchThrow(c)
  \/ \E c \in Slots : FetchOk(c)
  \/ \E c \in Slots : CallHandler(c)
  \/ \E c \in Slots : HandlerReturn(c)
  \/ \E c \in Slots : HandlerThrow(c)
  \/ ResetCache
  \/ AddBubble
  \/ AdvanceTime

SpecDet == InitDet /\ [][NextDet]_vars

\* ------------------------------------------------------------------------
\* the detector watching one conversation whose first reply is already stored,
\* followed over a longer stretch of wall-clock time
\* ------------------------------------------------------------------------
MaxWaitNow == MaxWaitSteps * TimeStep

AdvanceTimeWait ==
  /\ now + TimeStep <= MaxWaitNow
  /\ now' = now + TimeStep
  /\ UNCHANGED <<db, cache, isProcessing, pollTickCount, ticksLeft, pollingInterval,
                 timers, timersMade, cyc, invoked, returned, skipped, evaluated,
                 resets, lastExit>>
  /\ UNCHANGED <<gitVars, diff>>

InitWait ==
  /\ now = 0
  /\ db = <<U1, A2>>
  /\ cache = {}
  /\ isProcessing = FALSE
  /\ pollTickCount = 0
  /\ ticksLeft = MaxTicks
  /\ pollingInterval = 0
  /\ timers = {}
  /\ timersMade = 0
  /\ cyc = [c \in Slots |-> IdleCycle]
  /\ invoked = [i \in Ids |-> 0]
  /\ returned = [i \in Ids |-> 0]
  /\ skipped = 0
  /\ evaluated = 0
  /\ resets = 0
  /\ lastExit = "none"
  /\ InitGit("main", FALSE)

NextWait ==
  \/ StartPolling
  \/ StopPolling
  \/ \E t \in 1..MaxTimers : TimerTick(t)
  \/ \E c \in Slots : GetComposer(c)
  \/ \E c \in Slots : FetchThrow(c)
  \/ \E c \in Slots : FetchOk(c)
  \/ \E c \in Slots : CallHandler(c)
  \/ \E c \in Slots : HandlerReturn(c)
  \/ \E c \in Slots : HandlerThrow(c)
  \/ ResetCache
  \/ AddBubble
  \/ AdvanceTimeWait

SpecWait == InitWait /\ [][NextWait]_vars

\* ------------------------------------------------------------------------
\* the extension on a conversation of two pairs created at different times,
\* which the conversation store returns in any order that keeps each reply
\* after its user turn
\* ------------------------------------------------------------------------
U3Late == Bubble(3, "c1", "user", <<"o">>, TimeStep)

A4Late == Bubble(4, "c1", "assistant", <<"o">>, TimeStep)

FetchOrders ==
  {<<U1, A2, U3Late, A4Late>>, <<U3Late, A4Late, U1, A2>>}

InitOrder ==
  /\ now = COMPLETION_WAIT_MS + TimeStep
  /\ db \in FetchOrders
  /\ cache = {}
  /\ isProcessing = FALSE
  /\ pollTickCount = 0
  /\ ticksLeft = MaxTicks
  /\ pollingInterval = 0
  /\ timers = {}
  /\ timersMade = 0
  /\ cyc = [c \in Slots |-> IdleCycle]
  /\ invoked = [i \in Ids |-> 0]
  /\ returned = [i \in Ids |-> 0]
  /\ skipped = 0
  /\ evaluated = 0
  /\ resets = 0
  /\ lastExit = "none"
  /\ \E aiExists \in BOOLEAN : InitGit("main", aiExists)

SpecOrder == InitOrder /\ [][Next]_vars

\* ------------------------------------------------------------------------
\* the detector polling without end: the interval timer keeps firing, so the
\* tick counter, which only spaces the log lines, is counted up to
\* MaxLiveTicks and the bookkeeping of calls (ticksLeft, invoked, returned,
\* skipped, evaluated) is left alone
\* ------------------------------------------------------------------------
MaxLiveTicks == 2

\* the synchronous head of checkForNewPairs
EnterLive ==
  /\ pollTickCount' = IF pollTickCount < MaxLiveTicks
                      THEN pollTickCount + 1 ELSE pollTickCount
  /\ IF GuardBusy
     THEN UNCHANGED <<isProcessing, cyc>>
     ELSE /\ \E c \in Slots : ~Busy(c)
          /\ isProcessing' = FlagOnEnter
          /\ cyc' = [cyc EXCEPT ![LowestIdle] = [IdleCycle EXCEPT !.pc = "composer"]]

LiveUnchangedCounts == UNCHANGED <<ticksLeft, invoked, returned, skipped, evaluated>>

\* startPolling, called once by activate
StartPollingLive ==
  /\ timersMade = 0
  /\ EnterLive
  /\ timersMade' = timersMade + 1
  /\ timers' = timers \cup {timersMade + 1}
  /\ pollingInterval' = timersMade + 1
  /\ LiveUnchangedCounts
  /\ UNCHANGED <<now, db, cache, resets, lastExit>>
  /\ UNCHANGED <<gitVars, diff>>

\* the interval timer fires
TimerTickLive(t) ==
  /\ t \in timers
  /\ EnterLive
  /\ LiveUnchangedCounts
  /\ UNCHANGED <<now, db, cache, pollingInterval, timers, timersMade, resets, lastExit>>
  /\ UNCHANGED <<gitVars, diff>>

\* await getActiveComposerFromWorkspace(...) returned a composer id
ComposerFound(c) ==
  /\ cyc[c].pc = "composer"
  /\ cyc' = [cyc EXCEPT ![c].pc = "fetch"]
  /\ LiveUnchangedCounts
  /\ UNCHANGED <<now, db, cache, isProcessing, pollTickCount, pollingInterval, timers,
                 timersMade, resets, lastExit>>
  /\ UNCHANGED <<gitVars, diff>>

\* await getActiveComposerFromWorkspace(...) returned null or threw
ComposerMissing(c) ==
  /\ cyc[c].pc = "composer"
  /\ \E how \in {"noComposer", "composerThrow"} : Finish(c, how)
  /\ LiveUnchangedCounts
  /\ UNCHANGED <<now, db, cache, pollTickCount, pollingInterval, timers, timersMade,
                 resets>>
  /\ UNCHANGED <<gitVars, diff>>

\* the fetch returned; sort, pairBubbles, filterCompletedPairs, cache filter
FetchOkLive(c) ==
  /\ cyc[c].pc = "fetch"
  /\ LiveUnchangedCounts
  /\ UNCHANGED <<now, db, cache, pollTickCount, pollingInterval, timers, timersMade,
                 resets>>
  /\ UNCHANGED <<gitVars, diff>>
  /\ IF Len(db) = 0
     THEN Finish(c, "noTurns")
     ELSE LET allBubbles == SortByCreatedAt(db)
              pairs == pairBubbles(allBubbles)
              completedPairs == filterCompletedPairs(pairs, now)
              newPairs == NewPairsOf(completedPairs, cache)
          IN  IF Len(newPairs) = 0
              THEN Finish(c, "noNewPairs")
              ELSE /\ cyc' = [cyc EXCEPT ![c] =
                        [pc |-> "loop", allBubbles |-> allBubbles,
                         pairs |-> pairs, newPairs |-> newPairs, k |-> 1,
                         evalAt |-> now]]
                   /\ UNCHANGED <<isProcessing, lastExit>>

\* await Promise.resolve(this.onNewPair(pair)) starts
CallHandlerLive(c) ==
  /\ cyc[c].pc = "loop"
  /\ cyc' = [cyc EXCEPT ![c].pc = "handler"]
  /\ LiveUnchangedCounts
  /\ UNCHANGED <<now, db, cache, isProcessing, pollTickCount, pollingInterval, timers,
                 timersMade, resets, lastExit>>
  /\ UNCHANGED <<gitVars, diff>>

\* the handler returned: this.cache.set(id, true), then the next pair or the end
HandlerReturnLive(c) ==
  /\ cyc[c].pc = "handler"
  /\ cache' = cache \cup {CurrentId(c)}
  /\ IF cyc[c].k = Len(cyc[c].newPairs)
     THEN Finish(c, "done")
     ELSE /\ cyc' = [cyc EXCEPT ![c].pc = "loop", ![c].k = @ + 1]
          /\ UNCHANGED <<isProcessing, lastExit>>
  /\ LiveUnchangedCounts
  /\ UNCHANGED <<now, db, pollTickCount, pollingInterval, timers, timersMade, resets>>
  /\ UNCHANGED <<gitVars, diff>>

\* a turn is stored while the clock leaves room for its 30 s wait
AddBubbleLive ==
  /\ now + COMPLETION_WAIT_MS <= MaxWaitNow
  /\ AddBubble

NextLive ==
  \/ StartPollingLive
  \/ \E t \in 1..MaxTimers : TimerTickLive(t)
  \/ \E c \in Slots : ComposerFound(c)
  \/ \E c \in Slots : ComposerMissing(c)
  \/ \E c \in Slots : FetchThrow(c)
  \/ \E c \in Slots : FetchOkLive(c)
  \/ \E c \in Slots : CallHandlerLive(c)
  \/ \E c \in Slots : HandlerReturnLive(c)
  \/ \E c \in Slots : HandlerThrow(c)
  \/ AddBubbleLive
  \/ AdvanceTimeWait

\* activate starts the poller and setInterval keeps firing; wall-clock time
\* passes; an awaited step settles; the fetches and the handler, which can
\* fail, succeed again and again
LiveFairness ==
  /\ WF_vars(StartPollingLive)
  /\ WF_vars(\E t \in 1..MaxTimers : TimerTickLive(t))
  /\ WF_vars(AdvanceTimeWait)
  /\ WF_vars(\E c \in Slots : CallHandlerLive(c))
  /\ SF_vars(\E c \in Slots : ComposerFound(c))
  /\ SF_vars(\E c \in Slots : FetchOkLive(c))
  /\ SF_vars(\E c \in Slots : HandlerReturnLive(c))

SpecLive == InitWait /\ [][NextLive]_vars /\ LiveFairness

\* ------------------------------------------------------------------------
\* sort + pairBubbles applied to an arbitrary fetched turn list
\* ------------------------------------------------------------------------
PureTexts == {<<" ">>, <<"o">>}

\* a fetched list of n bubbles: distinct ids, any order of creation times
BubbleLists(n) ==
  {[i \in 1..n |-> Bubble(i, f[i][1], f[i][2], f[i][3], f[i][4])] :
     f \in [1..n -> Composers \X {"user", "assistant"} \X PureTexts \X (0..MaxT)]}

InitPairInputs ==
  /\ now = 0
  /\ \E n \in 0..MaxLen : db \in BubbleLists(n)
  /\ cache = {}
  /\ isProcessing = FALSE
  /\ pollTickCount = 0
  /\ ticksLeft = MaxTicks
  /\ pollingInterval = 0
  /\ timers = {}
  /\ timersMade = 0
  /\ cyc = [c \in Slots |-> IdleCycle]
  /\ invoked = [i \in Ids |-> 0]
  /\ returned = [i \in Ids |-> 0]
  /\ skipped = 0
  /\ evaluated = 0
  /\ resets = 0
  /\ lastExit = "none"
  /\ InitGit("main", FALSE)

\* allBubbles.sort(...); const pairs = this.pairBubbles(allBubbles)
ApplyPairingUnsorted ==
  /\ cyc[1].pc = "idle"
  /\ cyc' = [cyc EXCEPT ![1].pc = "paired",
                        ![1].allBubbles = db,
                        ![1].pairs = pairBubbles(db)]
  /\ UNCHANGED <<now, db, cache, isProcessing, pollTickCount, ticksLeft, pollingInterval,
                 timers, timersMade, invoked, returned, skipped, evaluated,
                 resets, lastExit>>
  /\ UNCHANGED <<gitVars, diff>>

ApplyPairing ==
  /\ cyc[1].pc = "idle"
  /\ cyc' = [cyc EXCEPT ![1].pc = "paired",
                        ![1].allBubbles = SortByCreatedAt(db),
                        ![1].pairs = pairBubbles(SortByCreatedAt(db))]
  /\ UNCHANGED <<now, db, cache, isProcessing, pollTickCount, ticksLeft, pollingInterval,
                 timers, timersMade, invoked, returned, skipped, evaluated,
                 resets, lastExit>>
  /\ UNCHANGED <<gitVars, diff>>

\* enrichPairWithFiles, the candidate window: startTime, endTime and the
\* Change Log query
CandidateWindowNoGrace(pair) ==
  [startTime |-> pair.userBubble.createdAt,
   endTime |-> pair.assistantBubbles[Len(pair.assistantBubbles)].createdAt]

CandidateWindow(pair) ==
  [startTime |-> pair.userBubble.createdAt,
   endTime |-> pair.assistantBubbles[Len(pair.assistantBubbles)].createdAt
                 + GRACE_MS]

\* fileChangeTracker.getFilePathsBetween(start, end): the paths of the
\* recorded change events with start <= time <= end
getFilePathsBetween(log, start, end) ==
  {e.path : e \in {x \in log : start <= x.time /\ x.time <= end}}

\* times of change events around the ends of the possible windows
EventTimes == {0, MaxT, GRACE_MS, GRACE_MS + MaxT, GRACE_MS + MaxT + 1}

ChangeEvents ==
  {[path |-> APY, time |-> t] : t \in EventTimes}
    \cup {[path |-> BPY, time |-> t] : t \in {0, GRACE_MS + MaxT + 1}}

\* what the Change Log holds when the pair is enriched
ChangeLogs == {log \in SUBSET ChangeEvents : Cardinality(log) <= MaxEvents}

\* enrichPairWithFiles(pair, ...) up to the Change Log query, for one of the
\* pairs of the cycle
EnrichWindow ==
  /\ cyc[1].pc = "paired"
  /\ diff.op = "none"
  /\ \E n \in 1..Len(cyc[1].pairs), log \in ChangeLogs :
       LET w == CandidateWindow(cyc[1].pairs[n])
       IN  diff' = [op |-> "window", pc |-> "out",
                    input |-> [pair |-> cyc[1].pairs[n], log |-> log],
                    output |-> [startTime |-> w.startTime,
                                endTime |-> w.endTime,
                                duration |-> w.endTime - w.startTime,
                                candidateFiles |->
                                  getFilePathsBetween(log, w.startTime, w.endTime)]]
  /\ UNCHANGED <<detVars, gitVars>>

NextPair == ApplyPairing \/ EnrichWindow

SpecPair == InitPairInputs /\ [][NextPair]_vars

\* ------------------------------------------------------------------------
\* Declarative reading of the turn sequence (independent of pairBubbles)
\* ------------------------------------------------------------------------
NonBlank(tx) == \E n \in 1..Len(tx) : tx[n] # " "

\* bs[k] is an assistant turn of the segment opened by the user turn bs[j]
InSegment(bs, j, k) ==
  /\ j < k
  /\ bs[j].type = "user"
  /\ bs[k].type = "assistant"
  /\ \A m \in (j + 1)..k : bs[m].type # "user"

QualifyingOf(bs, j) ==
  {k \in 1..Len(bs) : /\ InSegment(bs, j, k)
                      /\ NonBlank(bs[k].text)
                      /\ bs[k].composerId = bs[j].composerId}

UsersWithReply(bs) ==
  {j \in 1..Len(bs) : bs[j].type = "user" /\ QualifyingOf(bs, j) # {}}

Max(S) == CHOOSE x \in S : \A y \in S : y <= x

IdsOf(pairs) == {pairs[n].userBubble.bubbleId : n \in 1..Len(pairs)}

IndexOfId(bs, i) == CHOOSE j \in 1..Len(bs) : bs[j].bubbleId = i

\* ------------------------------------------------------------------------
\* C2
\* ------------------------------------------------------------------------
\* C2 (as stated): over any sequence of poll cycles the onNewPair handler is
\* invoked at most once for each user-turn id.
C2_InvokedAtMostOnce == \A i \in Ids : invoked[i] <= 1

\* C2 (amended): between two resetCache calls the handler returns normally at
\* most once per user-turn id, every id whose handler returned is recorded in
\* the emitted-id set, and the handler never runs for an id that is recorded.
C2_AtMostOncePerReset ==
  /\ \A i \in Ids : returned[i] <= 1
  /\ \A i \in Ids : returned[i] = 1 => i \in cache
  /\ \A c \in Slots : cyc[c].pc = "handler" => CurrentId(c) \notin cache

\* a pair was emitted and recorded, and a later cycle ran on the same turn set
\* without emitting it again
C2_Witness ==
  \E i \in Ids :
    /\ returned[i] = 1
    /\ invoked[i] = 1
    /\ i \in cache
    /\ evaluated >= 2
    /\ \A c \in Slots : ~Busy(c)

\* ------------------------------------------------------------------------
\* C3
\* ------------------------------------------------------------------------
\* the most recent pair of a turn sequence: its user turn and its last reply
MostRecentUser(bs) == Max(UsersWithReply(bs))

LastReply(bs, j) == Max(QualifyingOf(bs, j))

IsMostRecentPair(c) ==
  CurrentId(c) = cyc[c].pairs[Len(cyc[c].pairs)].userBubble.bubbleId

SinceLastReply(c) ==
  cyc[c].evalAt
    - CurrentPair(c).assistantBubbles[Len(CurrentPair(c).assistantBubbles)].createdAt

\* C3 (as stated, last part): the most recent pair is emitted once the wait has
\* elapsed and never again afterwards.
C3_MostRecentEmittedOnce ==
  \A c \in Slots :
    (cyc[c].pc = "handler" /\ IsMostRecentPair(c)) => invoked[CurrentId(c)] <= 1

\* C3 (amended): in a poll cycle whose fetch succeeds at time now the most
\* recent pair is not among the pairs handed to the handler while
\* now - (creation time of its last assistant turn) < 30000; when that
\* difference is >= 30000 and its id is not recorded it is among the cycle's new
\* pairs; and it is not handed to the handler while its id is recorded.
C3_CompletionTiming ==
  /\ [][\A c \in Slots :
          FetchOk(c) =>
            LET bs == SortByCreatedAt(db)
            IN  UsersWithReply(bs) # {} =>
                  LET j == MostRecentUser(bs)
                      d == now - bs[LastReply(bs, j)].createdAt
                      emitted == IdsOf(cyc'[c].newPairs)
                  IN  /\ d < COMPLETION_WAIT_MS => bs[j].bubbleId \notin emitted
                      /\ (d >= COMPLETION_WAIT_MS /\ bs[j].bubbleId \notin cache)
                           => bs[j].bubbleId \in emitted]_vars
  /\ [](\A c \in Slots :
          (cyc[c].pc = "handler" /\ IsMostRecentPair(c)) =>
             /\ CurrentId(c) \notin cache
             /\ SinceLastReply(c) >= COMPLETION_WAIT_MS)

\* the handler runs for the most recent pair, evaluated exactly 30000 ms after
\* its last assistant turn
C3_Witness ==
  \E c \in Slots :
    /\ cyc[c].pc = "handler"
    /\ IsMostRecentPair(c)
    /\ SinceLastReply(c) = COMPLETION_WAIT_MS

\* ------------------------------------------------------------------------
\* C4
\* ------------------------------------------------------------------------
\* C4: in a poll cycle, every pair whose user turn is followed by a later user
\* turn in the fetched turns is treated as complete (handed to the handler
\* unless already recorded), however little time has elapsed, also when the
\* later user turn has no qualifying assistant turn yet.
C4_NonLastComplete ==
  [][\A c \in Slots :
       FetchOk(c) =>
         LET bs == SortByCreatedAt(db)
         IN  \A j \in UsersWithReply(bs) :
               ((\E m \in (j + 1)..Len(bs) : bs[m].type = "user")
                  /\ bs[j].bubbleId \notin cache)
                 => bs[j].bubbleId \in IdsOf(cyc'[c].newPairs)]_vars

\* ------------------------------------------------------------------------
\* C5
\* ------------------------------------------------------------------------
\* C5: a user turn with zero qualifying assistant turns (none, only blank-text
\* or other-conversation ones) is never handed to the handler.
C5_NoReplyNeverEmitted ==
  \A i \in Ids :
    invoked[i] > 0 =>
      LET bs == SortByCreatedAt(db)
      IN  /\ \E j \in 1..Len(bs) : bs[j].bubbleId = i
          /\ IndexOfId(bs, i) \in UsersWithReply(bs)

\* a handler is running while the fetched turns hold a user turn whose only
\* assistant turns are blank or of another conversation, and the wait has elapsed
C5_Witness ==
  \E c \in Slots :
    /\ cyc[c].pc = "handler"
    /\ LET bs == cyc[c].allBubbles
       IN  \E j \in 1..Len(bs) :
             /\ bs[j].type = "user"
             /\ j \notin UsersWithReply(bs)
             /\ \E k \in 1..Len(bs) : InSegment(bs, j, k)
             /\ cyc[c].evalAt - bs[j].createdAt >= COMPLETION_WAIT_MS

\* ------------------------------------------------------------------------
\* C6
\* ------------------------------------------------------------------------
IsSorted(bs) ==
  \A i, j \in 1..Len(bs) : i < j => bs[i].createdAt <= bs[j].createdAt

\* places (pair n, position m) where the turn with id i appears as assistant
PlacesOf(ps, i) ==
  {<<n, m>> \in (1..Len(ps)) \X (1..MaxLen + 1) :
     /\ m <= Len(ps[n].assistantBubbles)
     /\ ps[n].assistantBubbles[m].bubbleId = i}

\* the nearest user turn of the same conversation before position k
PrecedingSameConv(bs, k) ==
  {j \in 1..(k - 1) : bs[j].type = "user" /\ bs[j].composerId = bs[k].composerId}

\* C6: in the result of pairBubbles on the turns sorted ascending by creation
\* time, every assistant turn appears in at most one pair (once), and only in
\* the pair of its nearest preceding same-conversation user turn.
C6_PairingInvariant ==
  cyc[1].pc = "paired" =>
    LET bs == cyc[1].allBubbles
        ps == cyc[1].pairs
    IN  /\ IsSorted(bs)
        /\ \A k \in 1..Len(bs) :
             bs[k].type = "assistant" =>
               /\ Cardinality(PlacesOf(ps, bs[k].bubbleId)) <= 1
               /\ \A pl \in PlacesOf(ps, bs[k].bubbleId) :
                    /\ PrecedingSameConv(bs, k) # {}
                    /\ ps[pl[1]].userBubble
                         = bs[Max(PrecedingSameConv(bs, k))]
        /\ \A n \in 1..Len(ps) : \A m \in 1..Len(ps[n].assistantBubbles) :
             \E k \in 1..Len(bs) : bs[k] = ps[n].assistantBubbles[m]

\* a pair was built from a list the sort had to reorder, and a non-blank
\* assistant turn that follows a user turn was left out of every pair
C6_Witness ==
  /\ cyc[1].pc = "paired"
  /\ Len(cyc[1].pairs) >= 1
  /\ cyc[1].allBubbles # db
  /\ \E k \in 1..Len(db) :
       /\ db[k].type = "assistant"
       /\ NonBlank(db[k].text)
       /\ PlacesOf(cyc[1].pairs, db[k].bubbleId) = {}
       /\ \E j \in 1..Len(db) : db[j].type = "user" /\ db[j].createdAt < db[k].createdAt

\* ------------------------------------------------------------------------
\* C7
\* ------------------------------------------------------------------------
\* C7: at most one poll cycle is past the isProcessing guard; a tick that fires
\* while a cycle is in flight only counts the tick (no fetch, no emission, no
\* change of the emitted-id set), and a cycle starts only at a tick (no replay).
C7_SingleFlight ==
  /\ [](Cardinality({c \in Slots : Busy(c)}) <= 1)
  /\ [][(pollTickCount' # pollTickCount /\ \E c \in Slots : Busy(c))
          => /\ cyc' = cyc
             /\ cache' = cache
             /\ invoked' = invoked
             /\ isProcessing' = isProcessing
             /\ skipped' = skipped + 1]_vars
  /\ [][(\E c \in Slots : ~Busy(c) /\ Busy(c)')
          => pollTickCount' = pollTickCount + 1]_vars

\* a tick was skipped and a cycle is in flight
C7_Witness == skipped >= 1 /\ \E c \in Slots : Busy(c)

\* ------------------------------------------------------------------------
\* C1
\* ------------------------------------------------------------------------
\* C1: after any run of the pair pipeline, whatever git step failed, the active
\* branch equals the branch that was active before the run.
C1_BranchSafety ==
  \A c \in Slots : pipe[c].pc = "done" => activeBranch = pipe[c].branchBefore

\* ------------------------------------------------------------------------
\* C8
\* ------------------------------------------------------------------------
GitSection == {"revparse", "branchLocal", "checkout", "commit", "restore"}

\* C8: at most one pipeline invocation is between ensureAiContextBranch and
\* restoreBranch at any time, and the saved-branch value is written only when
\* no earlier invocation's value is still recorded.
C8_GitCriticalSection ==
  /\ [](Cardinality({c \in Slots : pipe[c].pc \in GitSection}) <= 1)
  /\ [][savedBranch' \notin {savedBranch, "null"} => savedBranch = "null"]_vars

\* a pipeline is in its git section with the branch recorded, and a tick that
\* fired meanwhile was skipped
C8_Witness ==
  \E c \in Slots :
    /\ pipe[c].pc \in {"commit", "restore"}
    /\ savedBranch # "null"
    /\ skipped >= 1

\* ------------------------------------------------------------------------
\* C9
\* ------------------------------------------------------------------------
\* C9: a pipeline run that called ensureAiContextBranch reaches the metadata
\* save only after restoreBranch has been invoked, on every exit path of the
\* git steps, and a failing restoreBranch does not end the pipeline with an
\* exception.
C9_RestoreOnEveryPath ==
  \A c \in Slots :
    /\ pipe[c].pc # "threw"
    /\ (pipe[c].pc \in {"save", "done"} /\ pipe[c].ensureCalled)
         => pipe[c].restore # "no"

\* ensureAiContextBranch threw, restoreBranch ran and failed, and the pipeline
\* still completed
C9_Witness ==
  \E c \in Slots :
    /\ pipe[c].pc = "done"
    /\ pipe[c].ensureCalled
    /\ pipe[c].gitFailed
    /\ pipe[c].restore = "failed"

\* ------------------------------------------------------------------------
\* C10
\* ------------------------------------------------------------------------
\* C10: when a git step (branch create/checkout or commit) fails in a run with
\* at least one effective changed file, the run still upserts the record
\* exactly once, without commit hash and parent commit hash, and completes.
C10_GitFailureDegrades ==
  \A c \in Slots :
    (/\ pipe[c].pc = "done"
     /\ pipe[c].gitFailed
     /\ EffectiveFiles(pipe[c].changedFiles) # {})
      => /\ pipe[c].upserts = 1
         /\ StoreGet(store, CurrentId(c)).present
         /\ StoreGet(store, CurrentId(c)).commitHash = 0
         /\ StoreGet(store, CurrentId(c)).beforeCommitHash = 0

\* a run whose git step failed on an effective file has stored its record
C10_Witness ==
  \E c \in Slots :
    /\ pipe[c].pc = "done"
    /\ pipe[c].gitFailed
    /\ APY \in pipe[c].changedFiles
    /\ pipe[c].upserts = 1
    /\ StoreGet(store, CurrentId(c)).present

\* ------------------------------------------------------------------------
\* C11
\* ------------------------------------------------------------------------
\* C11: every commit created on the ai-context branch contains staged changes
\* only for paths of the correlated file set passed to commitMatchedFiles,
\* also when the branch was just created as an orphan and clearing the index
\* failed and was ignored
C11_OnlyCorrelatedCommitted ==
  \A c \in Slots : pipe[c].committedPaths \subseteq pipe[c].changedFiles

\* ------------------------------------------------------------------------
\* C12
\* ------------------------------------------------------------------------
ThrowBeforeLoop == {"composerThrow", "fetchThrow"}

\* a tick: the synchronous head of checkForNewPairs ran
IsTick == pollTickCount' = pollTickCount + 1

FreshCycle == [IdleCycle EXCEPT !.pc = "composer"]

\* C12: when resolving the active conversation or fetching the turns throws,
\* the cycle has invoked the handler for no pair, the emitted-id set is
\* unchanged, the invocation ends normally with the flag cleared, and the
\* next tick starts a full cycle from scratch
C12_FetchFailureAborts ==
  [][/\ \A c \in Slots :
          (Busy(c) /\ ~Busy(c)' /\ lastExit' \in ThrowBeforeLoop)
            => /\ cyc[c].pc \in {"composer", "fetch"}
               /\ cyc[c].k = 0 /\ cyc[c].newPairs = <<>>
               /\ cache' = cache
               /\ invoked' = invoked
               /\ isProcessing' = FALSE
               /\ \A d \in Slots : cyc'[d] = IdleCycle
     /\ (lastExit \in ThrowBeforeLoop /\ (\A c \in Slots : ~Busy(c)) /\ IsTick)
          => /\ \E c \in Slots : cyc'[c] = FreshCycle
             /\ skipped' = skipped
             /\ cache' = cache
    ]_vars

\* a fetch threw in one cycle and the cycle of the next tick reached the handler
C12_Witness ==
  /\ lastExit = "fetchThrow"
  /\ \E c \in Slots : cyc[c].pc = "handler"

\* ------------------------------------------------------------------------
\* C13
\* ------------------------------------------------------------------------
ExitPaths ==
  {"noComposer", "composerThrow", "fetchThrow", "noTurns", "noNewPairs", "done",
   "handlerThrow"}

\* C13: once a poll cycle that passed the guard has ended, by whichever exit
\* path (no active conversation, no turns, no new pairs, normal completion,
\* exception in fetch, exception in the handler), isProcessing is false
C13_FlagAlwaysCleared ==
  /\ (\A c \in Slots : ~Busy(c)) => isProcessing = FALSE
  /\ (\E c \in Slots : Busy(c)) => isProcessing = TRUE
  /\ pollTickCount > skipped /\ (\A c \in Slots : ~Busy(c)) => lastExit \in ExitPaths

\* a cycle ended with an exception in the handler and the flag is clear
C13_Witness ==
  /\ lastExit = "handlerThrow"
  /\ \A c \in Slots : ~Busy(c)
  /\ isProcessing = FALSE

\* ------------------------------------------------------------------------
\* C14
\* ------------------------------------------------------------------------
HandledBefore(c) ==
  {cyc[c].newPairs[j].userBubble.bubbleId : j \in 1..(cyc[c].k - 1)}

\* C14: an id enters the emitted-id set only in the step in which the handler
\* for that pair returns; when the handler throws for a pair, the pair is not
\* added, the cycle ends without handling its remaining new pairs, and the
\* pairs handled earlier in the cycle stay recorded
C14_EmitThenRecord ==
  [][/\ \A i \in cache' \ cache :
          \E c \in Slots : /\ cyc[c].pc = "handler"
                           /\ CurrentId(c) = i
                           /\ HandlerSettled(c)
                           /\ invoked[i] >= 1
                           /\ returned'[i] = returned[i] + 1
     /\ \A c \in Slots :
          (Busy(c) /\ ~Busy(c)' /\ lastExit' = "handlerThrow")
            => /\ cyc[c].pc = "handler"
               /\ CurrentId(c) \notin cache'
               /\ cache' = cache
               /\ invoked' = invoked
               /\ \A d \in Slots : cyc'[d] = IdleCycle
               /\ resets = 0 => HandledBefore(c) \subseteq cache'
    ]_vars

\* one cycle handled pair 1, which was recorded, and then pair 3, whose handler
\* threw
C14_Witness ==
  /\ lastExit = "handlerThrow"
  /\ evaluated = 1
  /\ resets = 0
  /\ 1 \in cache
  /\ invoked[3] = 1
  /\ returned[3] = 0
  /\ 3 \notin cache

\* ------------------------------------------------------------------------
\* C15
\* ------------------------------------------------------------------------
\* C15: while the poller is stopped (stopPolling has returned and startPolling
\* has not been called again) no poll cycle is started, whatever sequence of
\* startPolling/stopPolling calls came before; and stopPolling leaves a cycle
\* in flight, its pipeline run and the branch state as they are
C15_NoCycleAfterStop ==
  [][/\ (pollingInterval = 0 /\ pollingInterval' = 0)
          => \A c \in Slots : Busy(c)' => Busy(c)
     /\ (pollingInterval # 0 /\ pollingInterval' = 0)
          => UNCHANGED <<cyc, pipe, isProcessing, cache, activeBranch, savedBranch>>
    ]_vars

\* ------------------------------------------------------------------------
\* gitDiff.ts: line ranges
\* ------------------------------------------------------------------------
Range(s, e) == [start |-> s, end |-> e]

\* [...ranges].sort((a, b) => a.start - b.start): a stable sort by start
RECURSIVE InsertByStart(_, _)
InsertByStart(r, s) ==
  IF s = <<>> THEN <<r>>
  ELSE IF s[Len(s)].start <= r.start THEN Append(s, r)
  ELSE Append(InsertByStart(r, SubSeq(s, 1, Len(s) - 1)), s[Len(s)])

RECURSIVE SortByStartAux(_, _)
SortByStartAux(s, acc) ==
  IF s = <<>> THEN acc ELSE SortByStartAux(Tail(s), InsertByStart(Head(s), acc))

SortByStart(s) == SortByStartAux(s, <<>>)

\* if (curr.start <= prev.end + 1)
TouchesOverlapOnly(prev, curr) == curr.start <= prev.end

Touches(prev, curr) == curr.start <= prev.end + 1

MaxOf(a, b) == IF a >= b THEN a ELSE b

\* the loop of mergeAdjacentRanges over sorted[i..], merged being the result so far
RECURSIVE MergeFrom(_, _, _)
MergeFrom(sorted, i, merged) ==
  IF i > Len(sorted) THEN merged
  ELSE LET prev == merged[Len(merged)]
           curr == sorted[i]
       IN  IF Touches(prev, curr)
           THEN MergeFrom(sorted, i + 1,
                  [merged EXCEPT ![Len(merged)].end = MaxOf(prev.end, curr.end)])
           ELSE MergeFrom(sorted, i + 1, Append(merged, curr))

mergeAdjacentRanges(ranges) ==
  IF Len(ranges) <= 1 THEN ranges
  ELSE LET sorted == SortByStart(ranges)
       IN  MergeFrom(sorted, 2, <<sorted[1]>>)

\* ------------------------------------------------------------------------
\* gitDiff.ts: hunk headers; a header is a sequence of characters
\* ------------------------------------------------------------------------
DigitChars == <<"0", "1", "2", "3", "4", "5", "6", "7", "8", "9">>

IsDigit(ch) == \E k \in 1..10 : DigitChars[k] = ch

DigitValue(ch) == (CHOOSE k \in 1..10 : DigitChars[k] = ch) - 1

\* \s
IsSpace(ch) == ch = " "

\* parseInt(digits, 10)
RECURSIVE parseInt(_)
parseInt(ds) ==
  IF ds = <<>> THEN 0
  ELSE 10 * parseInt(SubSeq(ds, 1, Len(ds) - 1)) + DigitValue(ds[Len(ds)])

\* \d+ from position i: the position after the digits, 0 when there is none
RECURSIVE AfterDigits(_, _, _)
AfterDigits(s, i, seen) ==
  IF i <= Len(s) /\ IsDigit(s[i]) THEN AfterDigits(s, i + 1, TRUE)
  ELSE IF seen THEN i ELSE 0

\* \s+ from position i: the position after the whitespace, 0 when there is none
RECURSIVE AfterSpaces(_, _, _)
AfterSpaces(s, i, seen) ==
  IF i <= Len(s) /\ IsSpace(s[i]) THEN AfterSpaces(s, i + 1, TRUE)
  ELSE IF seen THEN i ELSE 0

\* (?:,\d+)? from position i: the position after the group, i when it is absent
AfterOptionalCount(s, i) ==
  IF i <= Len(s) /\ s[i] = "," /\ AfterDigits(s, i + 1, FALSE) # 0
  THEN AfterDigits(s, i + 1, FALSE) ELSE i

HasAt(s, i, ch) == i >= 1 /\ i <= Len(s) /\ s[i] = ch

NoMatch == [matched |-> FALSE, m1 |-> <<>>, hasM2 |-> FALSE, m2 |-> <<>>]

\* content.match(/^@@\s+-\d+(?:,\d+)?\s+\+(\d+)(?:,(\d+))?\s+@@/)
MatchChunkHeader(s) ==
  IF ~(HasAt(s, 1, "@") /\ HasAt(s, 2, "@")) THEN NoMatch
  ELSE LET p1 == AfterSpaces(s, 3, FALSE)
       IN  IF p1 = 0 \/ ~HasAt(s, p1, "-") THEN NoMatch
       ELSE LET p2 == AfterDigits(s, p1 + 1, FALSE)
            IN  IF p2 = 0 THEN NoMatch
       ELSE LET p3 == AfterOptionalCount(s, p2)
                p4 == AfterSpaces(s, p3, FALSE)
            IN  IF p4 = 0 \/ ~HasAt(s, p4, "+") THEN NoMatch
       ELSE LET p5 == AfterDigits(s, p4 + 1, FALSE)
            IN  IF p5 = 0 THEN NoMatch
       ELSE LET p6 == AfterOptionalCount(s, p5)
                p7 == AfterSpaces(s, p6, FALSE)
            IN  IF p7 = 0 \/ ~(HasAt(s, p7, "@") /\ HasAt(s, p7 + 1, "@"))
                THEN NoMatch
                ELSE [matched |-> TRUE,
                      m1 |-> SubSeq(s, p4 + 1, p5 - 1),
                      hasM2 |-> p6 # p5,
                      m2 |-> SubSeq(s, p5 + 1, p6 - 1)]

NoRange == <<>>

\* const count = m[2] ? parseInt(m[2], 10) : 1
CountOmittedIsZero(m) == IF m.hasM2 THEN parseInt(m.m2) ELSE 0

CountOf(m) == IF m.hasM2 THEN parseInt(m.m2) ELSE 1

\* extractNewRange: <<range>>, or <<>> for null
extractNewRange(content) ==
  LET m == MatchChunkHeader(content)
  IN  IF ~m.matched THEN NoRange
      ELSE LET start == parseInt(m.m1)
               count == CountOf(m)
           IN  IF count <= 0 THEN NoRange
               ELSE <<Range(start, start + count - 1)>>

\* the ranges one chunk contributes in lineRangesFromParsed
ChunkRanges(chunk) ==
  IF chunk.hasNewStart /\ chunk.hasNewLines /\ chunk.newLines > 0
  THEN <<Range(chunk.newStart, chunk.newStart + chunk.newLines - 1)>>
  ELSE IF chunk.hasContent THEN extractNewRange(chunk.content)
  ELSE NoRange

\* the loop over f.chunks in lineRangesFromParsed
RECURSIVE RangesOfChunks(_)
RangesOfChunks(chunks) ==
  IF chunks = <<>> THEN <<>>
  ELSE ChunkRanges(Head(chunks)) \o RangesOfChunks(Tail(chunks))

\* lineRangesFromParsed for one file: its merged ranges, <<>> when the file
\* gets no entry
FileRanges(chunks) ==
  LET ranges == RangesOfChunks(chunks)
  IN  IF Len(ranges) > 0 THEN mergeAdjacentRanges(ranges) ELSE <<>>

\* ------------------------------------------------------------------------
\* calls of the diff functions on bounded inputs
\* ------------------------------------------------------------------------
\* inclusive line ranges: start <= end
Ranges == UNION {{Range(a, b) : b \in a..MaxLine} : a \in 1..MaxLine}

\* the ranges of the hunks of one file, in the order of the diff
RangeLists ==
  UNION {[1..n -> Ranges] : n \in 0..MaxRanges}
    \cup {<<Range(10, 12), Range(13, 15)>>, <<Range(13, 15), Range(10, 12)>>}

\* everything but the call being followed is at rest
InitAtRest ==
  /\ InitDetector
  /\ pipe = [c \in Slots |-> IdlePipe]
  /\ activeBranch = "main"
  /\ localBranches = UserBranches
  /\ savedBranch = "null"
  /\ aiLog = <<>>
  /\ index = {}
  /\ store = <<>>

DiffUnchangedRest == UNCHANGED <<detVars, gitVars>>

\* result[normalized] = mergeAdjacentRanges(ranges)
MergeRanges ==
  /\ diff.op = "merge"
  /\ diff.pc = "in"
  /\ diff' = [diff EXCEPT !.pc = "out", !.output = mergeAdjacentRanges(diff.input)]
  /\ DiffUnchangedRest

InitMerge ==
  /\ InitAtRest
  /\ \E rs \in RangeLists : diff = [op |-> "merge", pc |-> "in", input |-> rs, output |-> <<>>]

\* the decimal digits of n, as git prints a hunk header
RECURSIVE ToDigits(_)
ToDigits(n) ==
  IF n < 10 THEN <<DigitChars[n + 1]>>
  ELSE ToDigits(n \div 10) \o <<DigitChars[(n % 10) + 1]>>

HunkStarts == {1, 10}

HunkCounts == {0, 1, 3}

\* the fields of a hunk header @@ -a[,b] +c[,d] @@ (a = 1, b = 0 when given)
Headers ==
  [wellFormed : {TRUE}, hasB : BOOLEAN, c : HunkStarts, hasD : BOOLEAN,
   d : HunkCounts]

\* git's header line for the fields h, followed by the section heading
FormatHeader(h) ==
  <<"@", "@", " ", "-", "1">> \o (IF h.hasB THEN <<",", "0">> ELSE <<>>)
    \o <<" ", "+">> \o ToDigits(h.c)
    \o (IF h.hasD THEN <<",">> \o ToDigits(h.d) ELSE <<>>)
    \o <<" ", "@", "@", " ", "f">>

NotAHeader == [wellFormed |-> FALSE, hasB |-> FALSE, c |-> 1, hasD |-> FALSE, d |-> 1]

\* chunk contents that are not hunk headers
Malformed ==
  {<<>>, <<"@", "@", " ", "-", "1", " ", "@", "@">>,
   <<"@", "@", "-", "1", " ", "+", "1", " ", "@", "@">>,
   <<"+", "1", ",", "3">>}

\* parse-diff chunks: structured fields and/or the header line as content
Chunks ==
  {[hasNewStart |-> st.has, newStart |-> st.start,
    hasNewLines |-> st.has /\ st.lines >= 0, newLines |-> st.lines,
    hasContent |-> ct.has, content |-> ct.text, header |-> ct.header] :
     st \in {[has |-> FALSE, start |-> 1, lines |-> 1]}
              \cup [has : {TRUE}, start : HunkStarts, lines : HunkCounts \cup {-1}],
     ct \in {[has |-> FALSE, text |-> <<>>, header |-> NotAHeader]}
              \cup {[has |-> TRUE, text |-> FormatHeader(h), header |-> h] : h \in Headers}
              \cup {[has |-> TRUE, text |-> t, header |-> NotAHeader] : t \in Malformed}}

ChunkLists == UNION {[1..n -> Chunks] : n \in 1..MaxChunks}

\* the loop body of lineRangesFromParsed for one file
ChunksToRanges ==
  /\ diff.op = "chunks"
  /\ diff.pc = "in"
  /\ diff' = [diff EXCEPT !.pc = "out",
                          !.output = [ranges |-> RangesOfChunks(diff.input),
                                      file |-> FileRanges(diff.input)]]
  /\ DiffUnchangedRest

InitChunks ==
  /\ InitAtRest
  /\ \E cs \in ChunkLists : diff = [op |-> "chunks", pc |-> "in", input |-> cs, output |-> <<>>]

\* ------------------------------------------------------------------------
\* getDiffLineRanges and the diff selection of enrichPairWithFiles
\* ------------------------------------------------------------------------
\* a diff text: whether the string is non-empty, and the files parse() finds
EmptyText == [nonEmpty |-> FALSE, files |-> {}]

\* what git.diff can do: return the diff, throw, or return text without a hunk
DiffOutcomes == {"ok", "error", "garbage"}

\* runDiff(paths): '' on error, else git diff [-- paths] of the working tree
runDiff(tree, paths, outcome) ==
  IF outcome = "error" THEN EmptyText
  ELSE IF outcome = "garbage" THEN [nonEmpty |-> TRUE, files |-> {}]
  ELSE LET fs == IF paths # {} THEN tree \cap paths ELSE tree
       IN  [nonEmpty |-> fs # {}, files |-> fs]

RestrictedTo(paths) == [restricted |-> TRUE, paths |-> paths]

Unrestricted == [restricted |-> FALSE, paths |-> {}]

\* getDiffLineRanges(workspaceRoot, { filePaths }): the files of the result and
\* the diffs it requested from git
getDiffLineRanges(tree, filePaths, env) ==
  LET first == IF filePaths # {} THEN runDiff(tree, filePaths, env.restricted)
               ELSE EmptyText
      again == ~first.nonEmpty
      final == IF again THEN runDiff(tree, {}, env.full) ELSE first
  IN  [files |-> IF final.nonEmpty THEN final.files ELSE {},
       requests |-> (IF filePaths # {} THEN <<RestrictedTo(filePaths)>> ELSE <<>>)
                      \o (IF again THEN <<Unrestricted>> ELSE <<>>)]

\* the line ranges the diff reports for a changed file
TreeRanges == <<Range(2, 3)>>

WholeFile == <<Range(1, 1)>>

FilesArray(files, ranges) == {[filePath |-> f, lineRanges |-> ranges] : f \in files}

\* enrichPairWithFiles, lines 45-70: candidateFiles to changedFiles
enrichChangedFiles(tree, candidateFiles, env) ==
  IF candidateFiles # {}
  THEN IF env.throws
       THEN [changedFiles |-> FilesArray(candidateFiles, WholeFile),
             requests |-> <<>>, diffFiles |-> {}]
       ELSE LET r == getDiffLineRanges(tree, candidateFiles, env)
            IN  [changedFiles |-> FilesArray(r.files, TreeRanges),
                 requests |-> r.requests, diffFiles |-> r.files]
  ELSE [changedFiles |-> {}, requests |-> <<>>, diffFiles |-> {}]

\* a pair to enrich: the changed files of the working tree, the candidate
\* paths of the Change Log for the pair's window, and what git does
EnrichInputs ==
  [tree : SUBSET TrackedFiles, candidates : SUBSET TrackedFiles,
   env : [throws : BOOLEAN, restricted : DiffOutcomes, full : DiffOutcomes]]

EnrichDiff ==
  /\ diff.op = "enrich"
  /\ diff.pc = "in"
  /\ diff' = [diff EXCEPT !.pc = "out",
                          !.output = enrichChangedFiles(diff.input.tree,
                                       diff.input.candidates, diff.input.env)]
  /\ DiffUnchangedRest

InitEnrich ==
  /\ InitAtRest
  /\ \E e \in EnrichInputs : diff = [op |-> "enrich", pc |-> "in", input |-> e, output |-> <<>>]

InitDiff == InitMerge \/ InitChunks \/ InitEnrich

NextDiff == MergeRanges \/ ChunksToRanges \/ EnrichDiff

SpecDiff == InitDiff /\ [][NextDiff]_vars

\* ------------------------------------------------------------------------
\* C16
\* ------------------------------------------------------------------------
Covered(rs) == UNION {rs[n].start .. rs[n].end : n \in 1..Len(rs)}

\* C16: mergeAdjacentRanges returns ranges sorted ascending by start that cover
\* exactly the line numbers of the input, no two of which overlap or are
\* adjacent (next.start <= prev.end + 1); [10,12] and [13,15] give [10,15]
C16_RangeMerge ==
  (diff.op = "merge" /\ diff.pc = "out")
    => LET out == diff.output
       IN  /\ \A n \in 1..(Len(out) - 1) : out[n].start <= out[n + 1].start
           /\ Covered(out) = Covered(diff.input)
           /\ \A m, n \in 1..Len(out) : m < n => out[n].start > out[m].end + 1
           /\ Covered(diff.input) = 10..15 => out = <<Range(10, 15)>>

\* the two hunks [13,15] and [10,12], given in that order, were merged
C16_Witness ==
  /\ diff.op = "merge"
  /\ diff.pc = "out"
  /\ diff.input = <<Range(13, 15), Range(10, 12)>>
  /\ diff.output = <<Range(10, 15)>>

\* ------------------------------------------------------------------------
\* C17
\* ------------------------------------------------------------------------
\* the range the hunk stands for, from the fields the chunk was built from
ExpectedRange(chunk) ==
  IF chunk.hasNewStart /\ chunk.hasNewLines /\ chunk.newLines > 0
  THEN <<Range(chunk.newStart, chunk.newStart + chunk.newLines - 1)>>
  ELSE IF chunk.hasContent /\ chunk.header.wellFormed
  THEN LET d == IF chunk.header.hasD THEN chunk.header.d ELSE 1
       IN  IF d = 0 THEN <<>>
           ELSE <<Range(chunk.header.c, chunk.header.c + d - 1)>>
  ELSE <<>>

RECURSIVE ExpectedRanges(_)
ExpectedRanges(chunks) ==
  IF chunks = <<>> THEN <<>>
  ELSE ExpectedRange(Head(chunks)) \o ExpectedRanges(Tail(chunks))

HeaderOnly(h) ==
  [hasNewStart |-> FALSE, newStart |-> 1, hasNewLines |-> FALSE, newLines |-> 1,
   hasContent |-> TRUE, content |-> FormatHeader(h), header |-> h]

\* the header @@ -1,0 +1,3 @@
Header_1_0_1_3 == [wellFormed |-> TRUE, hasB |-> TRUE, c |-> 1, hasD |-> TRUE, d |-> 3]

\* C17: each hunk with new-file start c and count d yields the range
\* [c, c+d-1], from the structured fields when they are present with d > 0 and
\* otherwise from the header line with d = 1 when omitted; a count of 0 yields
\* no range; @@ -1,0 +1,3 @@ yields [1,3]
C17_HunkToRange ==
  (diff.op = "chunks" /\ diff.pc = "out")
    => /\ diff.output.ranges = ExpectedRanges(diff.input)
       /\ diff.input = <<HeaderOnly(Header_1_0_1_3)>>
            => diff.output.file = <<Range(1, 3)>>

\* a file whose two hunks are @@ -1,0 +1,3 @@ and a header without a count
C17_Witness ==
  /\ diff.op = "chunks"
  /\ diff.pc = "out"
  /\ Len(diff.input) = 2
  /\ diff.input[1] = HeaderOnly(Header_1_0_1_3)
  /\ diff.input[2].hasContent /\ ~diff.input[2].hasNewStart
  /\ diff.input[2].header.wellFormed /\ ~diff.input[2].header.hasD
  /\ diff.input[2].header.c = 10
  /\ diff.output.ranges = <<Range(1, 3), Range(10, 10)>>

\* ------------------------------------------------------------------------
\* C18
\* ------------------------------------------------------------------------
EnrichDone == diff.op = "enrich" /\ diff.pc = "out"

\* C18: when the Change Log returns at least one candidate path for the pair's
\* window the diff is requested restricted to those candidates, and when it
\* returns none the enricher requests the unrestricted working-tree diff and
\* takes the changed files from it
C18_DiffSelection ==
  EnrichDone =>
    /\ diff.input.candidates # {}
         => /\ diff.input.env.throws \/ Len(diff.output.requests) >= 1
            /\ Len(diff.output.requests) >= 1
                 => diff.output.requests[1] = RestrictedTo(diff.input.candidates)
    /\ diff.input.candidates = {}
         => /\ diff.output.requests = <<Unrestricted>>
            /\ diff.input.env.full = "ok"
                 => diff.output.changedFiles = FilesArray(diff.input.tree, TreeRanges)

\* ------------------------------------------------------------------------
\* C19
\* ------------------------------------------------------------------------
\* C19: whenever the diff yields zero files (empty diff, git diff error or
\* unparseable output) and the candidate path set is non-empty, the changed
\* -file list holds each candidate path with the single range [1,1]
C19_WholeFileFallback ==
  (EnrichDone /\ diff.output.diffFiles = {} /\ diff.input.candidates # {})
    => diff.output.changedFiles = FilesArray(diff.input.candidates, WholeFile)

\* ------------------------------------------------------------------------
\* C20
\* ------------------------------------------------------------------------
\* C20: the record the pair pipeline writes is keyed by the pair's user-turn
\* id, and after any sequence of pipeline runs, repeated runs for the same pair
\* included, the store holds at most one record per user-turn id, the one
\* written last
C20_UpsertIdempotent ==
  /\ [](\A m, n \in 1..Len(store) : store[m].bubbleId = store[n].bubbleId => m = n)
  /\ [][store' # store
          => \E c \in Slots :
               /\ pipe[c].pc = "save"
               /\ cyc[c].pc = "handler"
               /\ HasRecord(store', CurrentId(c))
               /\ StoreGet(store', CurrentId(c)).commitHash = pipe[c].commitHash
               /\ \A i \in Ids \ {CurrentId(c)} : StoreGet(store', i) = StoreGet(store, i)
               /\ Len(store') = IF HasRecord(store, CurrentId(c))
                                THEN Len(store) ELSE Len(store) + 1
     ]_vars

\* a second run for the same pair replaced the record the first run had written
C20_Witness ==
  \E c \in Slots :
    /\ pipe[c].pc = "done"
    /\ pipe[c].upserts = 1
    /\ pipe[c].replaced
    /\ invoked[CurrentId(c)] = 2
    /\ Len(store) = 1
    /\ store[1].bubbleId = CurrentId(c)

\* ------------------------------------------------------------------------
\* C21
\* ------------------------------------------------------------------------
\* C21: every assistant turn of every pair produced by pairBubbles has
\* non-empty trimmed text and the conversation id of the pair's user turn,
\* was created no earlier than that user turn, and the assistant turns of a
\* pair are in ascending creation-time order.
C21_PairMembers ==
  cyc[1].pc = "paired" =>
    \A n \in 1..Len(cyc[1].pairs) :
      LET u  == cyc[1].pairs[n].userBubble
          as == cyc[1].pairs[n].assistantBubbles
      IN  /\ \A m \in 1..Len(as) :
               /\ Len(Trim(as[m].text)) > 0
               /\ as[m].composerId = u.composerId
               /\ as[m].createdAt >= u.createdAt
          /\ IsSorted(as)

\* a pair with two assistant turns was built from a fetched list in which an
\* assistant turn of the pair came before the pair's user turn
C21_Witness ==
  /\ cyc[1].pc = "paired"
  /\ \E n \in 1..Len(cyc[1].pairs) :
       /\ Len(cyc[1].pairs[n].assistantBubbles) >= 2
       /\ \E j, k \in 1..Len(db) :
            /\ j < k
            /\ db[k] = cyc[1].pairs[n].userBubble
            /\ db[j] = cyc[1].pairs[n].assistantBubbles[1]

\* ------------------------------------------------------------------------
\* C22
\* ------------------------------------------------------------------------
\* positions of the user turns of a turn list
UserPlaces(bs) == {k \in 1..Len(bs) : bs[k].type = "user"}

Min(S) == CHOOSE x \in S : \A y \in S : x <= y

\* C22: an assistant turn created before the first user turn of the fetched
\* sequence (sorted ascending by creation time) stands before that user turn
\* in the scanned sequence, and no assistant turn standing before the first
\* user turn appears in any pair.
C22_BeforeFirstUserDropped ==
  cyc[1].pc = "paired" =>
    LET bs == cyc[1].allBubbles
        ps == cyc[1].pairs
    IN  UserPlaces(bs) # {} =>
          LET f == Min(UserPlaces(bs))
          IN  \A k \in 1..Len(bs) :
                bs[k].type = "assistant" =>
                  /\ bs[k].createdAt < bs[f].createdAt => k < f
                  /\ k < f => PlacesOf(ps, bs[k].bubbleId) = {}

\* a non-blank assistant turn older than every user turn was fetched after a
\* user turn of its conversation, a pair was produced, and the turn is in none
C22_Witness ==
  /\ cyc[1].pc = "paired"
  /\ Len(cyc[1].pairs) >= 1
  /\ \E j, k \in 1..Len(db) :
       /\ j < k
       /\ db[j].type = "user"
       /\ db[k].type = "assistant"
       /\ db[k].composerId = db[j].composerId
       /\ NonBlank(db[k].text)
       /\ \A u \in UserPlaces(db) : db[k].createdAt < db[u].createdAt
       /\ PlacesOf(cyc[1].pairs, db[k].bubbleId) = {}

\* ------------------------------------------------------------------------
\* C23
\* ------------------------------------------------------------------------
\* the pair holds exactly the qualifying assistant turns that follow its user
\* turn in the turn sequence bs, in the order of bs
HoldsAllReplies(pair, bs) ==
  LET j  == IndexOfId(bs, pair.userBubble.bubbleId)
      as == pair.assistantBubbles
  IN  /\ Len(as) = Cardinality(QualifyingOf(bs, j))
      /\ \A k \in QualifyingOf(bs, j) : \E m \in 1..Len(as) : as[m] = bs[k]
      /\ \A m1, m2 \in 1..Len(as) :
           m1 < m2 => IndexOfId(bs, as[m1].bubbleId) < IndexOfId(bs, as[m2].bubbleId)

\* C23 (as stated): when the most recent pair is handed to the handler, it
\* contains every qualifying assistant turn stored for its user turn up to
\* that moment, and at least 30000 ms have passed since each of them was
\* created.
C23_LateTurnIncluded ==
  [][\A c \in Slots :
       (CallHandler(c) /\ IsMostRecentPair(c)) =>
          LET bs == SortByCreatedAt(db)
              j  == IndexOfId(bs, CurrentId(c))
          IN  /\ HoldsAllReplies(CurrentPair(c), bs)
              /\ \A k \in QualifyingOf(bs, j) :
                   now - bs[k].createdAt >= COMPLETION_WAIT_MS]_vars

\* C23 (amended): in a poll cycle whose fetch succeeds at time now, the most
\* recent pair is not handed over while now - (creation time of any of its
\* fetched qualifying assistant turns, the newest included) < 30000, it is
\* handed over when that difference is >= 30000 for all of them and its id is
\* not recorded, and every pair a cycle hands over holds all qualifying
\* assistant turns of its user turn that the cycle fetched, in creation order.
C23_WaitRestarts ==
  /\ [][\A c \in Slots :
          FetchOk(c) =>
            LET bs == SortByCreatedAt(db)
            IN  UsersWithReply(bs) # {} =>
                  LET j == MostRecentUser(bs)
                      emitted == IdsOf(cyc'[c].newPairs)
                  IN  /\ \A k \in QualifyingOf(bs, j) :
                           now - bs[k].createdAt < COMPLETION_WAIT_MS
                             => bs[j].bubbleId \notin emitted
                      /\ ((\A k \in QualifyingOf(bs, j) :
                             now - bs[k].createdAt >= COMPLETION_WAIT_MS)
                          /\ bs[j].bubbleId \notin cache)
                           => bs[j].bubbleId \in emitted]_vars
  /\ [](\A c \in Slots :
          cyc[c].pc \in {"loop", "handler"} =>
            \A n \in 1..Len(cyc[c].newPairs) :
              HoldsAllReplies(cyc[c].newPairs[n], cyc[c].allBubbles))

\* the most recent pair is handed over for the first time exactly 30000 ms
\* after its second reply, which came later than its first reply, so that
\* more than 30000 ms have passed since the first reply
C23_Witness ==
  \E c \in Slots :
    /\ cyc[c].pc = "handler"
    /\ IsMostRecentPair(c)
    /\ invoked[CurrentId(c)] = 1
    /\ Len(CurrentPair(c).assistantBubbles) = 2
    /\ SinceLastReply(c) = COMPLETION_WAIT_MS
    /\ cyc[c].evalAt - CurrentPair(c).assistantBubbles[1].createdAt
         > COMPLETION_WAIT_MS

\* ------------------------------------------------------------------------
\* commitMatchedFiles(workspaceRoot, filePaths) as a function of its
\* arguments and of what the git commands do
\* ------------------------------------------------------------------------
\* path segments are sequences of characters
SegW == <<"w">>

SegW2 == <<"w", "2">>

SegA == <<"a">>

SegX == <<"x">>

DotDot == <<".", ".">>

\* the workspace root /w
WorkspaceRoot == <<SegW>>

\* the string of an absolute path: "/" before every segment
RECURSIVE PathStr(_)
PathStr(segs) ==
  IF segs = <<>> THEN <<>>
  ELSE <<"/">> \o Head(segs) \o PathStr(Tail(segs))

\* String.prototype.startsWith
StartsWith(str, prefix) ==
  Len(str) >= Len(prefix) /\ SubSeq(str, 1, Len(prefix)) = prefix

\* path normalisation: ".." removes the segment before it
RECURSIVE NormalizeFrom(_, _)
NormalizeFrom(segs, acc) ==
  IF segs = <<>> THEN acc
  ELSE IF Head(segs) = DotDot
       THEN NormalizeFrom(Tail(segs),
                          IF acc = <<>> THEN acc ELSE SubSeq(acc, 1, Len(acc) - 1))
       ELSE NormalizeFrom(Tail(segs), Append(acc, Head(segs)))

\* path.resolve(root, p): an absolute p wins, a relative p is joined to root
Resolve(root, p) ==
  IF p.abs THEN NormalizeFrom(p.segs, <<>>) ELSE NormalizeFrom(root \o p.segs, <<>>)

\* filePaths.map(p => path.resolve(root, p)).filter(p => p.startsWith(root))
ToAdd(root, filePaths) ==
  SelectSeq([i \in 1..Len(filePaths) |-> PathStr(Resolve(root, filePaths[i]))],
            LAMBDA str : StartsWith(str, PathStr(root)))

\* the early returns before any git command
NullWithoutGit == [raised |-> FALSE, result |-> 0, cmds |-> <<>>, created |-> FALSE]

\* the body of the try block: add, status, commit; hash ?? null
TryBody(env) ==
  IF env.add = "raise"
  THEN [raised |-> TRUE, result |-> 0, cmds |-> <<"add">>, created |-> FALSE]
  ELSE IF env.status = "raise"
  THEN [raised |-> TRUE, result |-> 0, cmds |-> <<"add", "status">>, created |-> FALSE]
  ELSE IF env.staged = {}
  THEN [raised |-> FALSE, result |-> 0, cmds |-> <<"add", "status">>, created |-> FALSE]
  ELSE IF env.commit = "raise"
  THEN [raised |-> TRUE, result |-> 0, cmds |-> <<"add", "status", "commit">>,
        created |-> FALSE]
  ELSE [raised |-> FALSE, result |-> IF env.commit = "hash" THEN NewHash ELSE 0,
        cmds |-> <<"add", "status", "commit">>, created |-> TRUE]

\* catch { return null; }
CatchAll(r) == IF r.raised THEN [r EXCEPT !.raised = FALSE, !.result = 0] ELSE r

commitMatchedFiles(root, filePaths, env) ==
  IF Len(filePaths) = 0 THEN NullWithoutGit
  ELSE IF Len(ToAdd(root, filePaths)) = 0 THEN NullWithoutGit
  ELSE CatchAll(TryBody(env))

\* paths handed to commitMatchedFiles: a.py, ../x, ../w2/x, /w/a, /w2/x
CommitPaths ==
  {[abs |-> FALSE, segs |-> <<SegA>>],
   [abs |-> FALSE, segs |-> <<DotDot, SegX>>],
   [abs |-> FALSE, segs |-> <<DotDot, SegW2, SegX>>],
   [abs |-> TRUE, segs |-> <<SegW, SegA>>],
   [abs |-> TRUE, segs |-> <<SegW2, SegX>>]}

CommitPathLists == UNION {[1..n -> CommitPaths] : n \in 0..MaxCommitPaths}

\* what git does: add and status succeed or raise, status.staged, and commit
\* raises, reports the new commit's hash or reports none
GitOutcomes ==
  [add : {"ok", "raise"}, status : {"ok", "raise"}, staged : {{}, {APY}},
   commit : {"hash", "noHash", "raise"}]

CommitCall ==
  /\ diff.op = "commit"
  /\ diff.pc = "in"
  /\ diff' = [diff EXCEPT !.pc = "out",
                          !.output = commitMatchedFiles(WorkspaceRoot,
                                       diff.input.filePaths, diff.input.env)]
  /\ DiffUnchangedRest

InitCommitCall ==
  /\ InitAtRest
  /\ \E fp \in CommitPathLists, e \in GitOutcomes :
       diff = [op |-> "commit", pc |-> "in",
               input |-> [filePaths |-> fp, env |-> e], output |-> <<>>]

\* ------------------------------------------------------------------------
\* enrichPairWithFiles: token totals
\* ------------------------------------------------------------------------
\* an optional value is <<>> (undefined) or <<v>>

\* x || 0 for an optional number
OrZero(x) == IF x = <<>> THEN 0 ELSE x[1]

\* if (bubble.tokenCount) { total += bubble.tokenCount.inputTokens || 0; ... }
RECURSIVE TotalTokens(_, _)
TotalTokens(bubbles, field) ==
  IF bubbles = <<>> THEN 0
  ELSE (IF Head(bubbles).tokenCount = <<>> THEN 0
        ELSE OrZero(Head(bubbles).tokenCount[1][field]))
       + TotalTokens(Tail(bubbles), field)

\* (totalInputTokens > 0 || totalOutputTokens > 0) ? {...} : undefined
HasTokensBoth(totalIn, totalOut) == totalIn > 0 /\ totalOut > 0

HasTokens(totalIn, totalOut) == totalIn > 0 \/ totalOut > 0

\* [pair.userBubble, ...pair.assistantBubbles]
TurnsOf(pair) == <<pair.userBubble>> \o pair.assistantBubbles

tokenCountOf(pair) ==
  LET totalInputTokens  == TotalTokens(TurnsOf(pair), "inputTokens")
      totalOutputTokens == TotalTokens(TurnsOf(pair), "outputTokens")
  IN  IF HasTokens(totalInputTokens, totalOutputTokens)
      THEN <<[input |-> totalInputTokens, output |-> totalOutputTokens]>>
      ELSE <<>>

\* Bubble.tokenCount?: { inputTokens?: number; outputTokens?: number }
OptionalTokens == {<<>>} \cup {<<n>> : n \in 0..MaxTokens}

TokenCounts ==
  {<<>>} \cup {<<tc>> : tc \in [inputTokens : OptionalTokens,
                                outputTokens : OptionalTokens]}

TokenPairs ==
  [userBubble : [tokenCount : TokenCounts],
   assistantBubbles : UNION {[1..n -> [tokenCount : TokenCounts]] :
                               n \in 1..MaxAssistants}]

EnrichTokens ==
  /\ diff.op = "tokens"
  /\ diff.pc = "in"
  /\ diff' = [diff EXCEPT !.pc = "out", !.output = tokenCountOf(diff.input)]
  /\ DiffUnchangedRest

InitEnrichTokens ==
  /\ InitAtRest
  /\ \E pr \in TokenPairs :
       diff = [op |-> "tokens", pc |-> "in", input |-> pr, output |-> <<>>]

\* ------------------------------------------------------------------------
\* enrichPairWithFiles: model identifier, related files, external links
\* ------------------------------------------------------------------------
\* bubble.modelInfo?.modelName
ModelNameOf(b) == IF b.modelInfo = <<>> THEN <<>> ELSE b.modelInfo[1].modelName

\* a || b on optional strings: a unless it is undefined or ''
OrElse(a, b) == IF a # <<>> /\ a[1] # "" THEN a ELSE b

\* pair.userBubble.modelInfo?.modelName || pair.assistantBubbles[0]?.modelInfo?.modelName
modelTypeOf(pair) ==
  OrElse(ModelNameOf(pair.userBubble), ModelNameOf(pair.assistantBubbles[1]))

\* Set.prototype.add, the set kept in insertion order
SetAddAlways(seq, v) == Append(seq, v)

SetAdd(seq, v) ==
  IF \E i \in 1..Len(seq) : seq[i] = v THEN seq ELSE Append(seq, v)

RECURSIVE SetAddAll(_, _)
SetAddAll(seq, vs) ==
  IF vs = <<>> THEN seq ELSE SetAddAll(SetAdd(seq, Head(vs)), Tail(vs))

\* an optional array iterated with ?.forEach: nothing when undefined
Each(opt) == IF opt = <<>> THEN <<>> ELSE opt[1]

\* the relativePath values that pass `if (x.relativePath)`
TruthyPaths(items) ==
  LET kept == SelectSeq(items, LAMBDA x : x.relativePath # "")
  IN  [i \in 1..Len(kept) |-> kept[i].relativePath]

\* what one bubble adds to relatedFilesSet
RelatedOf(b) ==
  Each(b.relevantFiles)
    \o TruthyPaths(Each(b.attachedCodeChunks))
    \o TruthyPaths(IF b.context = <<>> THEN <<>> ELSE Each(b.context[1].fileSelections))

RECURSIVE RelatedFilesSet(_, _)
RelatedFilesSet(bubbles, acc) ==
  IF bubbles = <<>> THEN acc
  ELSE RelatedFilesSet(Tail(bubbles), SetAddAll(acc, RelatedOf(Head(bubbles))))

\* Array.from(set).length > 0 ? Array.from(set) : undefined
UndefinedIfEmpty(seq) == IF Len(seq) > 0 THEN <<seq>> ELSE <<>>

relatedFilesOf(pair) == UndefinedIfEmpty(RelatedFilesSet(TurnsOf(pair), <<>>))

\* JSON.stringify of { url } or { url, title }: the keys and values in order
Stringify(url, title) ==
  IF title = <<>> THEN <<"url", url>> ELSE <<"url", url, "title", title[1]>>

\* JSON.parse of such a string
Parse(str) ==
  [url |-> str[2], title |-> IF Len(str) = 4 THEN <<str[4]>> ELSE <<>>]

\* the strings one bubble adds to externalLinksSet
RECURSIVE LinkStrings(_)
LinkStrings(links) ==
  IF links = <<>> THEN <<>>
  ELSE LET link == Head(links)
       IN  (IF link.kind = "object" /\ link.url # ""
            THEN <<Stringify(link.url, link.title)>>
            ELSE IF link.kind = "string"
                 THEN <<Stringify(link.value, <<>>)>>
                 ELSE <<>>)
           \o LinkStrings(Tail(links))

RECURSIVE ExternalLinksSet(_, _)
ExternalLinksSet(bubbles, acc) ==
  IF bubbles = <<>> THEN acc
  ELSE ExternalLinksSet(Tail(bubbles),
                        SetAddAll(acc, LinkStrings(Each(Head(bubbles).externalLinks))))

externalLinksOf(pair) ==
  LET strs == ExternalLinksSet(TurnsOf(pair), <<>>)
  IN  UndefinedIfEmpty([i \in 1..Len(strs) |-> Parse(strs[i])])

\* a bubble without any of the optional fields
PlainTurn ==
  [modelInfo |-> <<>>, relevantFiles |-> <<>>, attachedCodeChunks |-> <<>>,
   context |-> <<>>, externalLinks |-> <<>>]

OptionalNames == {<<>>, <<"">>, <<"m1">>, <<"m2">>}

ModelInfos == {<<>>} \cup {<<[modelName |-> nm]>> : nm \in OptionalNames}

Lists(S, n) == UNION {[1..k -> S] : k \in 0..n}

Optional(S) == {<<>>} \cup {<<x>> : x \in S}

PathItems == {[relativePath |-> ""], [relativePath |-> "b"]}

LinkValues ==
  {[kind |-> "string", value |-> "u"],
   [kind |-> "object", url |-> "u", title |-> <<>>],
   [kind |-> "object", url |-> "u", title |-> <<"t">>],
   [kind |-> "object", url |-> "", title |-> <<"t">>],
   [kind |-> "object", url |-> "v", title |-> <<>>]}

\* turns that differ from PlainTurn in the model name only
ModelTurns == {[PlainTurn EXCEPT !.modelInfo = mi] : mi \in ModelInfos}

\* turns that differ from PlainTurn in the related-file sources only
FileTurns ==
  {[PlainTurn EXCEPT !.relevantFiles = rf, !.attachedCodeChunks = ch,
                     !.context = cx] :
     rf \in Optional(Lists({"a", "b"}, MaxItems)),
     ch \in Optional(Lists(PathItems, 1)),
     cx \in Optional([fileSelections : Optional(Lists(PathItems, 1))])}

\* turns that differ from PlainTurn in the external links only
LinkTurns ==
  {[PlainTurn EXCEPT !.externalLinks = el] :
     el \in Optional(Lists(LinkValues, MaxItems))}

AuxPairs ==
  UNION {[userBubble : Ts, assistantBubbles : [1..1 -> Ts]] :
           Ts \in {FileTurns, LinkTurns}}
    \cup [userBubble : ModelTurns,
          assistantBubbles : UNION {[1..n -> ModelTurns] : n \in 1..MaxAssistants}]

EnrichAux ==
  /\ diff.op = "aux"
  /\ diff.pc = "in"
  /\ diff' = [diff EXCEPT !.pc = "out",
                          !.output = [modelType |-> modelTypeOf(diff.input),
                                      relatedFiles |-> relatedFilesOf(diff.input),
                                      externalLinks |-> externalLinksOf(diff.input)]]
  /\ DiffUnchangedRest

InitEnrichAux ==
  /\ InitAtRest
  /\ \E pr \in AuxPairs :
       diff = [op |-> "aux", pc |-> "in", input |-> pr, output |-> <<>>]

\* ------------------------------------------------------------------------
\* the pure functions of the commit and enrichment steps, each applied once
\* to an input drawn from a bounded set
\* ------------------------------------------------------------------------
\* ------------------------------------------------------------------------
\* runAiContextPipeline, the single-turn pipeline: its result and the calls
\* it makes, in order ("record" is the assignment of the saved branch,
\* "save" a call of saveMetadataFromCursorDB)
\* ------------------------------------------------------------------------
\* the paths taken from the Change Log when the diff found nothing
TrackerFallbackAll(trackerPaths) == trackerPaths

TrackerFallback(trackerPaths) ==
  {q \in trackerPaths : q # <<>> /\ ~StartsWithAiContextDir(q)}

\* Object.keys(lineRangesByFile) after the two diffs and the fallback
LegacyFilePaths(trackerPaths, diffOfPaths, diffOfTree) ==
  LET first  == IF trackerPaths # {} THEN diffOfPaths ELSE {}
      second == IF first = {} THEN diffOfTree ELSE first
  IN  IF second = {} /\ trackerPaths # {}
      THEN TrackerFallback(trackerPaths) ELSE second

\* ensureAiContextBranch up to its return or throw
EnsureCalls(ensure) ==
  IF ensure = "revparseThrows" THEN <<>>
  ELSE IF ensure = "checkoutThrows" THEN <<"record">>
  ELSE <<"record", "checkout">>

runAiContextPipeline(in) ==
  LET filePaths == LegacyFilePaths(in.trackerPaths, in.diffOfPaths, in.diffOfTree)
      env == in.env
      ensured == env.ensure = "ok"
      notifyThrows == ensured /\ env.created /\ env.callback = "throws"
      commitCalled == ensured /\ ~notifyThrows
      caught == ~ensured \/ notifyThrows \/ env.commit = "throws"
      commitHash == IF commitCalled /\ env.commit = "hash" THEN 201 ELSE 0
  IN  IF filePaths = {}
      THEN [result |-> FALSE, calls |-> <<>>, savedHash |-> 0, filePaths |-> {}]
      ELSE [result |-> TRUE,
            calls |-> EnsureCalls(env.ensure)
                        \o (IF ensured /\ env.created /\ env.callback # "none"
                            THEN <<"notify">> ELSE <<>>)
                        \o (IF commitHash # 0 THEN <<"commit">> ELSE <<>>)
                        \o (IF caught THEN <<"save">> ELSE <<>>)
                        \o <<"restore">>
                        \o (IF caught THEN <<>> ELSE <<"save">>),
            savedHash |-> IF caught THEN 0 ELSE commitHash,
            filePaths |-> filePaths]

TrackerPathSets == SUBSET {<<>>, APY, AI_META}

LegacyEnvs ==
  [ensure : {"ok", "revparseThrows", "checkoutThrows"}, created : BOOLEAN,
   callback : {"none", "returns", "throws"}, commit : {"hash", "null", "throws"},
   restore : {"ok", "throws"}]

LegacyCall ==
  /\ diff.op = "legacy"
  /\ diff.pc = "in"
  /\ diff' = [diff EXCEPT !.pc = "out", !.output = runAiContextPipeline(diff.input)]
  /\ DiffUnchangedRest

InitLegacy ==
  /\ InitAtRest
  /\ \E tp \in TrackerPathSets, dp \in {{}, {APY}}, dt \in {{}, {APY}, {AI_META}},
        e \in LegacyEnvs :
       /\ dp \subseteq tp
       /\ diff = [op |-> "legacy", pc |-> "in",
                  input |-> [trackerPaths |-> tp, diffOfPaths |-> dp,
                             diffOfTree |-> dt, env |-> e],
                  output |-> <<>>]

InitCalls == InitCommitCall \/ InitEnrichTokens \/ InitEnrichAux \/ InitLegacy

NextCalls == CommitCall \/ EnrichTokens \/ EnrichAux \/ LegacyCall

SpecCalls == InitCalls /\ [][NextCalls]_vars

\* ------------------------------------------------------------------------
\* C24
\* ------------------------------------------------------------------------
\* the resolved path lies in the directory tree of the root
InsideRoot(root, p) ==
  LET r == Resolve(root, p)
  IN  Len(r) >= Len(root) /\ SubSeq(r, 1, Len(root)) = root

CommitDone == diff.op = "commit" /\ diff.pc = "out"

\* C24: commitMatchedFiles never throws; it returns null when the path list
\* is empty, when no path resolves inside the workspace root, when nothing is
\* staged after the add, and when add, status or commit raises an error; and
\* it returns a commit hash only when a commit was created.
C24_NoCommitReported ==
  CommitDone =>
    LET fp  == diff.input.filePaths
        env == diff.input.env
        out == diff.output
    IN  /\ ~out.raised
        /\ Len(fp) = 0 => out.result = 0
        /\ (\A i \in 1..Len(fp) : ~InsideRoot(WorkspaceRoot, fp[i]))
             => out.result = 0
        /\ (env.add = "ok" /\ env.status = "ok" /\ env.staged = {})
             => out.result = 0
        /\ (env.add = "raise" \/ env.commit = "raise") => out.result = 0
        /\ out.result # 0 => out.created

\* ------------------------------------------------------------------------
\* C25
\* ------------------------------------------------------------------------
\* C25: when ensureAiContextBranch returns, the dedicated branch is checked
\* out; it reports created = true exactly when no local branch of that name
\* existed, in which case the branch is an orphan (no history, not yet a local
\* branch); the first-created callback is called exactly once in a run with
\* created = true and never in a run with created = false or in a run whose
\* ensureAiContextBranch did not return.
C25_CreatedAndNotified ==
  /\ [][\A c \in Slots :
          (Checkout(c) /\ pipe'[c].pc = "commit") =>
             /\ activeBranch' = AI_BRANCH
             /\ pipe'[c].created <=> AI_BRANCH \notin localBranches
             /\ pipe'[c].created => (aiLog' = <<>> /\ AI_BRANCH \notin localBranches')
             /\ pipe'[c].notified = IF pipe'[c].created THEN 1 ELSE 0]_vars
  /\ [](\A c \in Slots :
          /\ pipe[c].notified <= 1
          /\ pipe[c].notified = 1 => pipe[c].created
          /\ pipe[c].pc \in {"enrich", "revparse", "branchLocal", "checkout"}
               => pipe[c].notified = 0
          /\ (pipe[c].gitFailed /\ pipe[c].commitHash = 0 /\ pipe[c].pc = "restore"
                /\ activeBranch # AI_BRANCH)
               => pipe[c].notified = 0)

\* a second pipeline run finds the branch the first run created and committed
\* to: the first run called the callback, the second does not
C25_Witness ==
  \E c \in Slots :
    /\ pipe[c].pc = "commit"
    /\ ~pipe[c].created
    /\ pipe[c].notified = 0
    /\ Len(store) = 1
    /\ store[1].commitHash = 201

\* ------------------------------------------------------------------------
\* C26
\* ------------------------------------------------------------------------
\* the commit that precedes commit h on the dedicated branch, 0 when h is the
\* branch's first commit (aiLog lists the branch's commits newest first)
ParentOnAiBranch(h) ==
  LET n == CHOOSE i \in 1..Len(aiLog) : aiLog[i] = h
  IN  IF n < Len(aiLog) THEN aiLog[n + 1] ELSE 0

\* C26: every stored record that has a commit hash has, as its parent commit
\* hash, the commit that immediately precedes that commit on the dedicated
\* branch, and no parent commit hash when that commit is the branch's first.
C26_ParentCommitHash ==
  \A n \in 1..Len(store) :
    store[n].commitHash # 0 =>
      /\ \E i \in 1..Len(aiLog) : aiLog[i] = store[n].commitHash
      /\ store[n].beforeCommitHash = ParentOnAiBranch(store[n].commitHash)

\* ------------------------------------------------------------------------
\* C27
\* ------------------------------------------------------------------------
WindowDone == diff.op = "window" /\ diff.pc = "out"

\* C27: for a pair produced by the detector the Change Log is queried with
\* the window [creation time of the user turn, creation time of the last
\* assistant turn + 60000], both ends inclusive: the result holds exactly the
\* paths with an event in that window, the window start is not after its end
\* and its length is at least 60000 ms.
C27_CandidateWindow ==
  WindowDone =>
    LET pair == diff.input.pair
        out  == diff.output
        last == pair.assistantBubbles[Len(pair.assistantBubbles)]
    IN  /\ out.startTime = pair.userBubble.createdAt
        /\ out.endTime = last.createdAt + 60000
        /\ out.startTime <= out.endTime
        /\ out.endTime - out.startTime >= 60000
        /\ out.duration = out.endTime - out.startTime
        /\ \A e \in ChangeEvents :
             (e \in diff.input.log
                /\ pair.userBubble.createdAt <= e.time
                /\ e.time <= last.createdAt + 60000)
               => e.path \in out.candidateFiles
        /\ \A f \in out.candidateFiles :
             \E e \in diff.input.log :
               /\ e.path = f
               /\ ~(e.time < pair.userBubble.createdAt)
               /\ ~(e.time > last.createdAt + 60000)

\* the window of a pair whose last assistant turn is younger than its user
\* turn, queried against a Change Log whose only event lies exactly on the
\* window's end, and the event's path is a candidate
C27_Witness ==
  /\ WindowDone
  /\ diff.output.endTime - diff.output.startTime > 60000
  /\ \E e \in diff.input.log : e.time = diff.output.endTime
  /\ diff.output.candidateFiles = {APY}

\* ------------------------------------------------------------------------
\* C28
\* ------------------------------------------------------------------------
\* the count a turn contributes: 0 when the turn has no token record or the
\* record lacks the field
Contribution(b, field) ==
  IF b.tokenCount = <<>> \/ b.tokenCount[1][field] = <<>> THEN 0
  ELSE b.tokenCount[1][field][1]

\* the sum of the contributions of the first n turns
RECURSIVE SumOfFirst(_, _, _)
SumOfFirst(turns, n, field) ==
  IF n = 0 THEN 0
  ELSE SumOfFirst(turns, n - 1, field) + Contribution(turns[n], field)

TokensDone == diff.op = "tokens" /\ diff.pc = "out"

\* C28: the enriched pair's input and output token counts are the sums of the
\* input and output token counts of the user turn and of every assistant turn
\* of the pair, a missing count contributing 0, and the token field is absent
\* exactly when both sums are 0.
C28_TokenTotals ==
  TokensDone =>
    LET turns == <<diff.input.userBubble>> \o diff.input.assistantBubbles
        sumIn  == SumOfFirst(turns, Len(turns), "inputTokens")
        sumOut == SumOfFirst(turns, Len(turns), "outputTokens")
    IN  /\ diff.output = <<>> <=> (sumIn = 0 /\ sumOut = 0)
        /\ diff.output # <<>> =>
             /\ diff.output[1].input = sumIn
             /\ diff.output[1].output = sumOut

\* a pair whose user turn has no token record, whose first assistant turn has
\* only an output count and whose second has both: totals 1 in, 2 out
C28_Witness ==
  /\ TokensDone
  /\ diff.input.userBubble.tokenCount = <<>>
  /\ Len(diff.input.assistantBubbles) = 2
  /\ diff.input.assistantBubbles[1].tokenCount
       = <<[inputTokens |-> <<>>, outputTokens |-> <<1>>]>>
  /\ diff.output = <<[input |-> 1, output |-> 2]>>

\* ------------------------------------------------------------------------
\* C29
\* ------------------------------------------------------------------------
AuxDone == diff.op = "aux" /\ diff.pc = "out"

\* a model name is present: defined and not the empty string
Present(name) == name # <<>> /\ name[1] # ""

NameOfTurn(b) == IF b.modelInfo = <<>> THEN <<>> ELSE b.modelInfo[1].modelName

TurnsIn(pair) ==
  {pair.userBubble} \cup {pair.assistantBubbles[i] : i \in 1..Len(pair.assistantBubbles)}

ElementsOf(opt) == IF opt = <<>> THEN {} ELSE {opt[1][i] : i \in 1..Len(opt[1])}

\* the related-file values of a turn: its relevant files and the non-empty
\* paths of its attached code chunks and of its file selections
RelatedValues(b) ==
  ElementsOf(b.relevantFiles)
    \cup {x.relativePath : x \in {y \in ElementsOf(b.attachedCodeChunks) : y.relativePath # ""}}
    \cup (IF b.context = <<>> THEN {}
          ELSE {x.relativePath :
                  x \in {y \in ElementsOf(b.context[1].fileSelections) : y.relativePath # ""}})

\* the link values of a turn: a bare string is the link with that url, an
\* object without url is no link
LinkValuesOf(b) ==
  {[url |-> l.value, title |-> <<>>] :
     l \in {x \in ElementsOf(b.externalLinks) : x.kind = "string"}}
    \cup {[url |-> l.url, title |-> l.title] :
            l \in {x \in ElementsOf(b.externalLinks) : x.kind = "object" /\ x.url # ""}}

\* the optional list holds every value of the set once and nothing else, and
\* is absent when the set is empty
HoldsEachOnce(opt, values) ==
  IF values = {} THEN opt = <<>>
  ELSE /\ opt # <<>>
       /\ {opt[1][i] : i \in 1..Len(opt[1])} = values
       /\ Len(opt[1]) = Cardinality(values)

\* C29: the model identifier is the user turn's model name when present and
\* otherwise the first assistant turn's; the related-files result and the
\* external-links result hold each distinct value found across the turns of
\* the pair exactly once and are absent when there is none.
C29_AuxiliaryMetadata ==
  AuxDone =>
    LET pair == diff.input
        out  == diff.output
    IN  /\ out.modelType =
             IF Present(NameOfTurn(pair.userBubble))
             THEN NameOfTurn(pair.userBubble)
             ELSE NameOfTurn(pair.assistantBubbles[1])
        /\ HoldsEachOnce(out.relatedFiles,
                         UNION {RelatedValues(b) : b \in TurnsIn(pair)})
        /\ HoldsEachOnce(out.externalLinks,
                         UNION {LinkValuesOf(b) : b \in TurnsIn(pair)})

\* both turns carry two links, the link with url "u" is given as a string in
\* one and as an object in the other, and the result holds two links
C29_Witness ==
  /\ AuxDone
  /\ Len(Each(diff.input.userBubble.externalLinks)) = 2
  /\ Len(Each(diff.input.assistantBubbles[1].externalLinks)) = 2
  /\ [kind |-> "string", value |-> "u"] \in ElementsOf(diff.input.userBubble.externalLinks)
  /\ [kind |-> "object", url |-> "u", title |-> <<>>]
       \in ElementsOf(diff.input.assistantBubbles[1].externalLinks)
  /\ diff.output.externalLinks # <<>>
  /\ Len(diff.output.externalLinks[1]) = 2

\* ------------------------------------------------------------------------
\* C30
\* ------------------------------------------------------------------------
InsideEnsure == {"revparse", "branchLocal", "checkout"}

\* C30: whenever a pipeline run is about to call commitMatchedFiles,
\* ensureAiContextBranch has returned without throwing in that run and the
\* dedicated branch is checked out; a step in which ensureAiContextBranch
\* throws leads to restoreBranch without touching the index or any history;
\* and a commit is created only by commitMatchedFiles, with the dedicated
\* branch checked out.
C30_CommitOnlyOnDedicatedBranch ==
  /\ [](\A c \in Slots :
          pipe[c].pc = "commit" =>
            /\ pipe[c].ensureCalled
            /\ ~pipe[c].gitFailed
            /\ activeBranch = AI_BRANCH)
  /\ [][\A c \in Slots :
          (pipe[c].pc \in InsideEnsure /\ pipe'[c].gitFailed) =>
             /\ pipe'[c].pc = "restore"
             /\ index' = index
             /\ aiLog' = aiLog
             /\ pipe'[c].commitHash = 0]_vars
  /\ [][aiLog' # aiLog =>
          /\ activeBranch = AI_BRANCH
          /\ \E c \in Slots : pipe[c].pc = "commit" /\ pipe'[c].commitHash = aiLog'[1]]_vars

\* a run whose ensureAiContextBranch threw before the branch list was read
\* has gone through restoreBranch and is about to save: no commit exists
C30_Witness ==
  \E c \in Slots :
    /\ pipe[c].pc = "save"
    /\ pipe[c].ensureCalled
    /\ pipe[c].gitFailed
    /\ ~pipe[c].created
    /\ AI_BRANCH \notin localBranches
    /\ pipe[c].commitHash = 0
    /\ aiLog = <<>>
    /\ index = {}

\* ------------------------------------------------------------------------
\* C31
\* ------------------------------------------------------------------------
\* C31: the Context Store changes only in the save step of a pipeline run,
\* and that run has either attempted restoreBranch or started no git step;
\* no run that changes the store is between ensureAiContextBranch and
\* restoreBranch.
C31_UpsertAfterRestore ==
  [][store' # store =>
       \E c \in Slots :
         /\ pipe[c].pc = "save"
         /\ pipe'[c].pc = "done"
         /\ pipe'[c].upserts = pipe[c].upserts + 1
         /\ pipe[c].pc \notin GitSection
         /\ \/ ~pipe[c].ensureCalled /\ pipe[c].restore = "no"
            \/ pipe[c].ensureCalled /\ pipe[c].restore \in {"ok", "failed"}]_vars

\* a run that committed and whose restoreBranch failed has stored its record
\* with the commit hash
C31_Witness ==
  \E c \in Slots :
    /\ pipe[c].pc = "done"
    /\ pipe[c].upserts = 1
    /\ pipe[c].restore = "failed"
    /\ pipe[c].commitHash # 0
    /\ StoreGet(store, CurrentId(c)).commitHash = pipe[c].commitHash

\* ------------------------------------------------------------------------
\* C32
\* ------------------------------------------------------------------------
OnlyPlaceholder(files) == files = {NO_CHANGE_PLACEHOLDER}

\* C32: a pipeline run whose changed-file list is only the no-change
\* placeholder is never in a git step, called neither ensureAiContextBranch
\* nor restoreBranch, staged and committed nothing, and none of its steps
\* changes the active branch, the saved-branch value, the index or a history;
\* it ends on the branch it started on.
C32_NoGitWithoutRealFile ==
  /\ [](\A c \in Slots :
          OnlyPlaceholder(pipe[c].changedFiles) =>
            /\ pipe[c].pc \in {"save", "done"}
            /\ ~pipe[c].ensureCalled
            /\ pipe[c].restore = "no"
            /\ ~pipe[c].gitFailed
            /\ pipe[c].commitHash = 0
            /\ pipe[c].committedPaths = {}
            /\ activeBranch = pipe[c].branchBefore)
  /\ [][\A c \in Slots :
          OnlyPlaceholder(pipe'[c].changedFiles) =>
            /\ activeBranch' = activeBranch
            /\ savedBranch' = savedBranch
            /\ localBranches' = localBranches
            /\ index' = index
            /\ aiLog' = aiLog]_vars

\* a run on the placeholder alone has finished, storing nothing, in a
\* repository that has the dedicated branch
C32_Witness ==
  \E c \in Slots :
    /\ pipe[c].pc = "done"
    /\ OnlyPlaceholder(pipe[c].changedFiles)
    /\ pipe[c].upserts = 0
    /\ savedBranch = "null"
    /\ AI_BRANCH \in localBranches
    /\ invoked[CurrentId(c)] = 1

\* ------------------------------------------------------------------------
\* C33: a completed pair whose pipeline run finds no effective changed file
\* (only placeholders or paths under .ai-context/) stores no record in the
\* Context Store; its user-turn id is nevertheless added to the emitted-id
\* set when the handler returns, and while the set is not reset the pair is
\* not handed to the handler again, whatever a later run would have found
\* ------------------------------------------------------------------------
NoEffectiveFile(c) == EffectiveFiles(pipe[c].changedFiles) = {}

BeingHandled(i) == \E c \in Slots : cyc[c].pc = "handler" /\ CurrentId(c) = i

HasReply(i) == i \in UsersWithReply(db)

C34_EventuallyEmitted ==
  /\ []<>(\A i \in Ids : HasReply(i) => i \in cache)
  /\ [][\A i \in Ids : i \in cache' /\ i \notin cache => BeingHandled(i)]_vars

\* the most recent pair was found waiting by an earlier cycle, which ended
\* with no new pair, and is handed to the handler by a later tick
C34_Witness ==
  \E c \in Slots :
    /\ cyc[c].pc = "handler"
    /\ IsMostRecentPair(c)
    /\ lastExit = "noNewPairs"
    /\ pollTickCount >= 2
    /\ cache = {}
    /\ resets = 0

\* ------------------------------------------------------------------------
\* C35: within one poll cycle the new completed pairs are handed to the
\* handler in ascending order of their user turn's creation time, one at a
\* time: the handler of a pair, with its whole branch switch, commit and
\* restore, has finished before the handler of the next pair starts
\* ------------------------------------------------------------------------
InLoop(c) == cyc[c].pc \in {"loop", "handler"}

StartsHandler(c) == cyc[c].pc = "loop" /\ cyc'[c].pc = "handler"

IdAt(c, n) == cyc[c].newPairs[n].userBubble.bubbleId

C35_OrderedSequentialEmission ==
  /\ [](\A c \in Slots : InLoop(c) =>
          \A m, n \in 1..Len(cyc[c].newPairs) :
            m < n => cyc[c].newPairs[m].userBubble.createdAt
                       <= cyc[c].newPairs[n].userBubble.createdAt)
  /\ [][\A c \in Slots : StartsHandler(c) =>
          /\ \A d \in Slots : pipe[d].pc = "idle"
          /\ savedBranch = "null"
          /\ pipe'[c].pc = "enrich"
          /\ invoked'[IdAt(c, cyc[c].k)] = invoked[IdAt(c, cyc[c].k)] + 1
          /\ evaluated = 1 =>
                /\ \A m \in 1..(cyc[c].k - 1) : invoked[IdAt(c, m)] = 1
                /\ \A n \in cyc[c].k..Len(cyc[c].newPairs) : invoked[IdAt(c, n)] = 0]_vars
  /\ [][\A c \in Slots : InLoop(c) /\ InLoop(c)' /\ cyc'[c].k # cyc[c].k =>
          /\ cyc'[c].k = cyc[c].k + 1
          /\ cyc[c].pc = "handler"
          /\ pipe[c].pc = "done"
          /\ pipe'[c].pc = "idle"]_vars

\* the store returned the later pair first; the first pair's handler has
\* returned and the second pair's handler is committing on the dedicated branch
C35_Witness ==
  \E c \in Slots :
    /\ db[1].bubbleId = 3
    /\ cyc[c].pc = "handler"
    /\ cyc[c].k = 2
    /\ CurrentId(c) = 3
    /\ 1 \in cache
    /\ pipe[c].pc = "commit"
    /\ activeBranch = AI_BRANCH

\* ------------------------------------------------------------------------
\* C36: resetCache empties the emitted-id set and touches nothing else, so
\* the next cycle whose fetch succeeds takes every complete pair that is not
\* recorded since, and hands each of them to the handler; a handler that
\* returns records its pair also when resetCache ran while it was in flight
\* ------------------------------------------------------------------------
CompleteIds(c) == IdsOf(filterCompletedPairs(cyc[c].pairs, cyc[c].evalAt))

C36_ResetCache ==
  /\ [][resets' # resets =>
          cache' = {} /\ cyc' = cyc /\ pipe' = pipe /\ isProcessing' = isProcessing]_vars
  /\ [][\A c \in Slots : cyc[c].pc = "fetch" /\ cyc'[c].pc = "loop" =>
          /\ IdsOf(cyc'[c].newPairs) = CompleteIds(c)' \ cache
          /\ cyc'[c].k = 1]_vars
  /\ [][\A c \in Slots : cyc[c].pc = "handler" /\ cyc'[c].pc # "handler" =>
          /\ CurrentId(c) \in cache'
          /\ cyc'[c].pc = "idle" => cyc[c].k = Len(cyc[c].newPairs)]_vars
  /\ [](\A i \in Ids : invoked[i] >= 2 => resets >= 1)

\* both pairs were emitted, the set was reset between two cycles, and the
\* next cycle has handed both pairs to the handler again
C36_Witness ==
  /\ resets = 1
  /\ invoked[1] = 2
  /\ invoked[3] = 2
  /\ cache = {1, 3}
  /\ \A c \in Slots : cyc[c].pc = "idle"

\* resetCache ran while the handler of the first pair was in flight, and the
\* pair is recorded again although it was handed over once
C36_WitnessInFlight ==
  /\ resets = 1
  /\ evaluated = 1
  /\ invoked[1] = 1
  /\ returned[1] = 1
  /\ 1 \in cache

\* ------------------------------------------------------------------------
\* C37: restoreBranch checks out exactly the branch name that the most recent
\* ensureAiContextBranch recorded, and clears the record whether or not the
\* checkout succeeded; with no branch recorded it checks out 'main'. The
\* record is the branch that was active when ensureAiContextBranch read HEAD,
\* and it is empty when ensureAiContextBranch threw before recording
\* ------------------------------------------------------------------------
RestoreReturns(c) == pipe[c].pc = "restore" /\ pipe'[c].pc # "restore"

Recorded == savedBranch # "null"

C37_SavedBranchProtocol ==
  /\ [][\A c \in Slots : RestoreReturns(c) =>
          /\ savedBranch' = "null"
          /\ pipe'[c].restore = "ok" =>
                activeBranch' = CheckedOut(IF Recorded THEN savedBranch ELSE "main")
          /\ pipe'[c].restore = "failed" => activeBranch' = activeBranch]_vars
  /\ [](\A c \in Slots : pipe[c].pc \in {"branchLocal", "checkout", "commit", "restore"} =>
          /\ Recorded => savedBranch = pipe[c].branchBefore
          /\ ~Recorded => pipe[c].pc = "restore" /\ pipe[c].gitFailed)
  /\ []((\A c \in Slots : pipe[c].pc \notin GitSection) => ~Recorded)

\* the checkout of restoreBranch failed after 'dev' had been recorded: the
\* record is cleared and the tree is left on the dedicated branch
C37_Witness ==
  \E c \in Slots :
    /\ pipe[c].pc = "save"
    /\ pipe[c].restore = "failed"
    /\ pipe[c].branchBefore = "dev"
    /\ activeBranch = AI_BRANCH
    /\ savedBranch = "null"

\* ensureAiContextBranch threw before recording in a run started on 'dev':
\* restoreBranch checked out 'main'
C37_WitnessFallback ==
  \E c \in Slots :
    /\ pipe[c].pc = "save"
    /\ pipe[c].restore = "ok"
    /\ pipe[c].gitFailed
    /\ pipe[c].branchBefore = "dev"
    /\ activeBranch = "main"

\* ------------------------------------------------------------------------
\* C38: runAiContextPipeline returns false, having recorded no branch,
\* switched no branch, committed nothing and saved no metadata, when neither
\* diff names a file and the Change Log holds no path that is non-empty and
\* outside .ai-context/; in every other case it returns true and has called
\* saveMetadataFromCursorDB exactly once
\* ------------------------------------------------------------------------
LegacyDone == diff.op = "legacy" /\ diff.pc = "out"

CallsOf(calls, what) == Cardinality({n \in 1..Len(calls) : calls[n] = what})

NoValidFile(in) ==
  /\ in.trackerPaths = {} \/ in.diffOfPaths = {}
  /\ in.diffOfTree = {}
  /\ \A q \in in.trackerPaths : q = <<>> \/ q[1] = ".ai-context"

C38_LegacyPipelineOutcome ==
  LegacyDone =>
    IF NoValidFile(diff.input)
    THEN diff.output.result = FALSE /\ diff.output.calls = <<>>
    ELSE /\ diff.output.result = TRUE
         /\ CallsOf(diff.output.calls, "save") = 1
         /\ CallsOf(diff.output.calls, "restore") = 1

\* the commit step threw after the switch: the metadata was saved once, in
\* the catch block, and the call returned true
C38_Witness ==
  /\ LegacyDone
  /\ diff.input.env.ensure = "ok"
  /\ diff.input.env.commit = "throws"
  /\ diff.output.result = TRUE
  /\ diff.output.calls = <<"record", "checkout", "save", "restore">>

\* the Change Log held only a path under .ai-context/ and the diffs were
\* empty: false, and no call was made
C38_WitnessFalse ==
  /\ LegacyDone
  /\ diff.input.trackerPaths = {AI_META}
  /\ diff.output.result = FALSE
  /\ diff.output.calls = <<>>

\* ------------------------------------------------------------------------
\* C39: the ranges stored for a file are in normal form: every range has
\* start <= end, each range starts after the end of the one before it plus
\* one, and mergeAdjacentRanges applied to its own output returns the same
\* ranges; the ranges read from the hunks already have start <= end
\* ------------------------------------------------------------------------
WellFormed(rs) == \A n \in 1..Len(rs) : rs[n].start <= rs[n].end

NormalForm(rs) ==
  /\ WellFormed(rs)
  /\ \A n \in 1..(Len(rs) - 1) : rs[n + 1].start > rs[n].end + 1
  /\ mergeAdjacentRanges(rs) = rs

C39_MergedNormalForm ==
  /\ (diff.op = "merge" /\ diff.pc = "out") => NormalForm(diff.output)
  /\ (diff.op = "chunks" /\ diff.pc = "out") =>
        /\ WellFormed(diff.output.ranges)
        /\ NormalForm(diff.output.file)

\* three hunks given out of order, two of them adjacent, are stored as two
\* ranges
C39_Witness ==
  /\ diff.op = "merge"
  /\ diff.pc = "out"
  /\ diff.input = <<Range(4, 5), Range(1, 1), Range(2, 2)>>
  /\ diff.output = <<Range(1, 2), Range(4, 5)>>

\* a file with two hunk headers whose ranges are merged into one
C39_WitnessFile ==
  /\ diff.op = "chunks"
  /\ diff.pc = "out"
  /\ Len(diff.output.ranges) = 2
  /\ Len(diff.output.file) = 1
====
